---------------------------- MODULE Spec2Model ----------------------------
(***************************************************************************)
(* City Emergency Response Manager: the weighted city graph, Dijkstra      *)
(* routes, the Prim and Kruskal spanning trees, the nearest-unit resource  *)
(* allocation pass and the knapsack incident selection.                    *)
(*                                                                         *)
(* Vertex names are the integers 1..NumNames; their integer order stands   *)
(* for Python's string order of the names (used by heapq's tuple order and *)
(* by Kruskal's  vertex < neighbor ).                                      *)
(***************************************************************************)
EXTENDS Integers, Sequences, FiniteSets, TLC

\* ------------------------------------------------------------------ bounds
NumNames == 3
MaxWeight == 2
MaxCalls == 3

\* the allocation pass: grid columns, resource types, counts, incidents
GridCols == 2
NumTypes == 2
MaxCount == 2
MaxUnits == 2
MaxNeed == 2
MaxIncidents == 2
\* knapsack_incident_assignment: list length, durations and time limits
MaxKnapIncidents == 3
MaxDuration == 3
MaxTimeLimit == 5
\* how far around the demo's time limit the sample incidents are tried
SampleSlack == 30
\* activity_selection_greedy: list length, start times and durations
MaxActIncidents == 3
MaxTime == 3
MaxSpan == 2
\* the sorts: list length, priority values, times, letters and length of a location
MaxSortIncidents == 3
MaxSortPriority == 3
MaxSortTime == 1
MaxLetter == 2
MaxLocationLen == 1
\* strategy names: how many of a name's letters are tried in upper case
MaxUpper == 1
\* constructors: the largest quantity of a required resource
MaxQuantity == 1

Names == 1..NumNames
Weights == 0..MaxWeight

\* -------------------------------------------------------- program constants
\* Python's None, as the predecessor of a vertex that has none.
None == 0
\* float('infinity'): larger than every finite distance of the model.
Infinity == 1000000
\* build_city_graph(rows=2, ...) and the travel time it gives every edge
GridRows == 2
EdgeTime == 1
\* create_sample_city's locations, numbered in the order of their names as strings
CityA == 1
CityB == 2
CityC == 3
CityD == 4
CityHQ == 5
\* demo_scheduling: time_limit = 300
DemoTimeLimit == 300

VARIABLES
    vertices,       \* EmergencyGraph.vertices: list of names, insertion order
    edges,          \* EmergencyGraph.edges: name -> ordered dict (list of <<neighbour, weight>>)
    calls,          \* number of add_vertex/add_edge calls made so far
    call_log,       \* history: the add_vertex/add_edge calls made, when a session records them
    rpc,            \* get_shortest_path: "build", "walk", "returned", "raised"
    start_vertex,
    end_vertex,
    distances,      \* dijkstra's distances dict
    predecessors,   \* dijkstra's predecessors dict
    popped,         \* the vertices in the order dijkstra marked them visited
    path,           \* get_shortest_path's path list while walking back
    current,        \* get_shortest_path's current
    result,         \* what get_shortest_path returned: [path, total_time]
    mst_pc,         \* compare_algorithms: "build", "compared"
    prim_result,    \* prims_algorithm's (mst_edges, total_cost)
    kruskal_result, \* kruskals_algorithm's (mst_edges, total_cost)
    impl,           \* which allocate_resources runs: "test" (test.py), "main" (test/main.py)
    inventory,      \* G.nodes[node][rtype]: node -> resource type -> count
    inventory0,     \* the inventory at the start of the pass (history)
    incidents,      \* the ordered incident list: records [id, node, needs]
    apc,            \* allocate_resources: "off", "incident", "unit", "returned"
    inc_i,          \* position in incidents of the incident being served
    need_i,         \* position in needs.items() of the resource type being served
    unit_i,         \* iterations of  for _ in range(count)  already run
    assignments,    \* the result dict: key -> list of <<rtype, source, cost>>
    serving,        \* the (id, node, needs) the loop is serving
    log,            \* history: <<position, rtype, source, cost>> of every entry appended
    kpc,            \* knapsack_incident_assignment: "off", "called", "returned"
    kn_incidents,   \* its incidents argument: records [id, estimated_duration, priority]
    time_limit,     \* its time_limit argument
    selected_incidents, \* the list it returned
    gpc,            \* activity_selection_greedy: "off", "called", "returned"
    act_incidents,  \* its incidents argument: records [id, time, estimated_duration]
    act_selected,   \* the list it returned
    sort_pc,        \* a sort call: "off", "called", "returned", "raised"
    self_incidents, \* IncidentScheduler.incidents: records [id, priority, time, location]
    algorithm,      \* the sort that ran: "merge", "quick", "heap"; "" before the call
    key_func,       \* the key function it was given; "" before the call
    sort_result,    \* the list the sort returned
    sort_by,        \* the sort_by_* method called: "priority", "time", "location"; "" if none
    sort_name,      \* the algorithm name sort_by_* was given
    sort_error,     \* the exception a sort call raised: "ValueError", "TypeError"; "" if none
    plan_pc,        \* plan_infrastructure: "off", "called", "returned", "raised"
    plan_algorithm, \* its algorithm argument
    plan_result,    \* the (mst_edges, total_cost) it returned
    atomic,         \* concurrent passes: TRUE when check and decrement of a unit are one step
    race_pc,        \* per pass: "off", "scan", "commit", "store", "done"
    race_inc,       \* per pass: the incident it serves
    race_unit,      \* per pass: how many iterations of  for _ in range(count)  are finished
    race_best,      \* per pass: best_node and best_dist of the running iteration
    race_load,      \* per pass: the count read by  G.nodes[best_node][rtype] -= 1
    race_assign,    \* per pass: its assignments list
    construct_error \* the exception the last Incident/Resource construction raised; "" if none

graphVars == <<vertices, edges, calls, call_log>>
routeVars == <<rpc, start_vertex, end_vertex, distances, predecessors, popped,
               path, current, result>>
mstVars == <<mst_pc, prim_result, kruskal_result>>
allocVars == <<impl, inventory, inventory0, incidents, apc, inc_i, need_i, unit_i,
               serving, assignments, log>>
knapVars == <<kpc, kn_incidents, time_limit, selected_incidents, construct_error>>
actVars == <<gpc, act_incidents, act_selected>>
sortVars == <<sort_pc, self_incidents, algorithm, key_func, sort_result, sort_by, sort_name,
              sort_error>>
planVars == <<plan_pc, plan_algorithm, plan_result>>
raceVars == <<atomic, race_pc, race_inc, race_unit, race_best, race_load, race_assign>>
schedVars == <<knapVars, actVars, sortVars>>

\* ------------------------------------------------------------ generic helpers
Range(s) == {s[i] : i \in 1..Len(s)}

\* mutant: the list is left as it was built
ReverseForgotten(s) == s

\* list.reverse()
Reverse(s) == [i \in 1..Len(s) |-> s[Len(s) + 1 - i]]

SetMinOf(S) == CHOOSE x \in S : \A y \in S : x <= y

RECURSIVE SumSeq(_)
SumSeq(s) == IF s = <<>> THEN 0 ELSE s[1] + SumSeq(Tail(s))

\* An ordered Python dict as a list of <<key, value>> pairs with distinct keys.
DictKeys(d) == {d[i][1] : i \in 1..Len(d)}

DictGet(d, k) == (CHOOSE i \in 1..Len(d) : d[i][1] = k)

DictValue(d, k) == d[DictGet(d, k)][2]

\* d[k] = v: an existing key keeps its place, a new key goes last.
DictSet(d, k, v) ==
    IF k \in DictKeys(d)
    THEN [d EXCEPT ![DictGet(d, k)] = <<k, v>>]
    ELSE Append(d, <<k, v>>)

\* ------------------------------------------------------------ EmergencyGraph
\* add_vertex as a function of the graph [vertices, edges]
\* mutant: the vertex is appended and its edges reset whether it is new or not
add_vertex_again(g, vertex) ==
    [vertices |-> Append(g.vertices, vertex),
     edges |-> [u \in DOMAIN g.edges \cup {vertex} |-> IF u = vertex THEN <<>> ELSE g.edges[u]]]

add_vertex(g, vertex) ==
    IF vertex \notin Range(g.vertices)
    THEN [vertices |-> Append(g.vertices, vertex),
          edges |-> (vertex :> <<>>) @@ g.edges]
    ELSE g

\* mutant: the edge is stored at its source only
add_edge_one_way(g, source, destination, weight) ==
    LET g1 == IF source \notin Range(g.vertices) THEN add_vertex(g, source) ELSE g
        g2 == IF destination \notin Range(g1.vertices)
              THEN add_vertex(g1, destination) ELSE g1
    IN [vertices |-> g2.vertices,
        edges |-> [g2.edges EXCEPT ![source] = DictSet(@, destination, weight)]]

add_edge(g, source, destination, weight) ==
    LET g1 == IF source \notin Range(g.vertices) THEN add_vertex(g, source) ELSE g
        g2 == IF destination \notin Range(g1.vertices)
              THEN add_vertex(g1, destination) ELSE g1
        e1 == [g2.edges EXCEPT ![source] = DictSet(@, destination, weight)]
        e2 == [e1 EXCEPT ![destination] = DictSet(@, source, weight)]
    IN [vertices |-> g2.vertices, edges |-> e2]

get_neighbors(vertex) ==
    IF vertex \in DOMAIN edges THEN edges[vertex] ELSE <<>>

get_all_vertices == vertices

Graph == [vertices |-> vertices, edges |-> edges]

AddVertexCall(v) ==
    /\ calls < MaxCalls
    /\ vertices' = add_vertex(Graph, v).vertices
    /\ edges' = add_vertex(Graph, v).edges
    /\ calls' = calls + 1

AddEdgeCall(a, b, w) ==
    /\ calls < MaxCalls
    /\ vertices' = add_edge(Graph, a, b, w).vertices
    /\ edges' = add_edge(Graph, a, b, w).edges
    /\ calls' = calls + 1

AddVertex(v) == AddVertexCall(v) /\ UNCHANGED call_log

AddEdge(a, b, w) == AddEdgeCall(a, b, w) /\ UNCHANGED call_log

\* the same calls in a session that records them
LoggedAddVertex(v) == AddVertexCall(v) /\ call_log' = Append(call_log, <<v>>)

LoggedAddEdge(a, b, w) == AddEdgeCall(a, b, w) /\ call_log' = Append(call_log, <<a, b, w>>)

\* ------------------------------------------------------------------ heapq
\* A heap of tuples is kept as the list of its tuples in ascending tuple order:
\* heappop returns the smallest tuple, whatever the array layout.
RECURSIVE TupleLess(_, _)
TupleLess(a, b) ==
    IF a = <<>> THEN b # <<>>
    ELSE IF b = <<>> THEN FALSE
    ELSE IF a[1] # b[1] THEN a[1] < b[1]
    ELSE TupleLess(Tail(a), Tail(b))

RECURSIVE heappush(_, _)
heappush(h, item) ==
    IF h = <<>> THEN <<item>>
    ELSE IF TupleLess(item, h[1]) THEN <<item>> \o h
    ELSE <<h[1]>> \o heappush(Tail(h), item)

heappop(h) == [item |-> h[1], heap |-> Tail(h)]

\* ---------------------------------------------------------------- dijkstra
\* mutant: a vertex is only updated the first time it is discovered
ShorterOnlyIfUnseen(distance, known) == known = Infinity

\* mutant: an equal distance also replaces the recorded one
ShorterOrEqual(distance, known) == distance <= known

\* distance < distances[neighbor]
Shorter(distance, known) == distance < known

\* the for loop over the neighbours of current_vertex, from the i-th on
RECURSIVE Relax(_, _, _, _, _)
Relax(s, current_distance, current_vertex, nbrs, i) ==
    IF i > Len(nbrs) THEN s
    ELSE LET neighbor == nbrs[i][1]
             weight == nbrs[i][2]
             distance == current_distance + weight
         IN IF Shorter(distance, s.distances[neighbor])
            THEN Relax([s EXCEPT !.distances[neighbor] = distance,
                                 !.predecessors[neighbor] = current_vertex,
                                 !.priority_queue = heappush(@, <<distance, neighbor>>),
                                 !.pushed = Append(@, <<distance, neighbor>>)],
                       current_distance, current_vertex, nbrs, i + 1)
            ELSE Relax(s, current_distance, current_vertex, nbrs, i + 1)

\* the while loop over the priority queue
RECURSIVE DijkstraLoop(_)
DijkstraLoop(s) ==
    IF s.priority_queue = <<>> THEN s
    ELSE LET top == heappop(s.priority_queue)
             current_distance == top.item[1]
             current_vertex == top.item[2]
             s0 == [s EXCEPT !.priority_queue = top.heap]
         IN IF current_vertex \in s.visited THEN DijkstraLoop(s0)
            ELSE LET s1 == [s0 EXCEPT !.visited = @ \cup {current_vertex},
                                      !.popped = Append(@, current_vertex)]
                 IN IF current_distance > s1.distances[current_vertex]
                    THEN DijkstraLoop(s1)
                    ELSE DijkstraLoop(Relax(s1, current_distance, current_vertex,
                                            get_neighbors(current_vertex), 1))

\* (popped and pushed are history: the vertices in the order they were marked
\* visited, and the tuples in the order heappush received them)
dijkstra(start) ==
    DijkstraLoop([distances |-> (start :> 0) @@ [v \in Range(get_all_vertices) |-> Infinity],
                  predecessors |-> [v \in Range(get_all_vertices) |-> None],
                  priority_queue |-> <<<<0, start>>>>,
                  visited |-> {},
                  popped |-> <<>>,
                  pushed |-> <<<<0, start>>>>])

\* ------------------------------------------------------- get_shortest_path
\* mutation of Unreached: the check for an unreachable end is never taken
UnreachedIgnored(distance) == FALSE

\* distances[end_vertex] == float('infinity')
Unreached(distance) == distance = Infinity

\* The call, up to the start of the backward walk.
GetShortestPath(start, end) ==
    /\ rpc = "build"
    /\ LET d == dijkstra(start)
       IN /\ start_vertex' = start
          /\ end_vertex' = end
          /\ distances' = d.distances
          /\ predecessors' = d.predecessors
          /\ popped' = d.popped
          /\ IF end \notin DOMAIN d.distances
             THEN \* distances[end_vertex] raises KeyError
                  /\ rpc' = "raised"
                  /\ UNCHANGED <<path, current, result>>
             ELSE IF Unreached(d.distances[end])
             THEN /\ rpc' = "returned"
                  /\ result' = [path |-> <<>>, total_time |-> Infinity]
                  /\ UNCHANGED <<path, current>>
             ELSE /\ rpc' = "walk"
                  /\ path' = <<>>
                  /\ current' = end
                  /\ UNCHANGED result
    /\ UNCHANGED <<graphVars, mstVars, planVars, allocVars, raceVars, schedVars>>

\* One iteration of  while current is not None .
WalkStep ==
    /\ rpc = "walk"
    /\ current # None
    /\ Len(path) <= Len(vertices) + 1
    /\ path' = Append(path, current)
    /\ IF current \in DOMAIN predecessors
       THEN /\ current' = predecessors[current]
            /\ rpc' = "walk"
       ELSE \* predecessors[current] raises KeyError
            /\ current' = current
            /\ rpc' = "raised"
    /\ UNCHANGED <<graphVars, mstVars, planVars, allocVars, raceVars, schedVars, start_vertex, end_vertex, distances,
                   predecessors, popped, result>>

ReturnPath ==
    /\ rpc = "walk"
    /\ current = None
    /\ result' = [path |-> Reverse(path), total_time |-> distances[end_vertex]]
    /\ rpc' = "returned"
    /\ UNCHANGED <<graphVars, mstVars, planVars, allocVars, raceVars, schedVars, start_vertex, end_vertex, distances,
                   predecessors, popped, path, current>>

\* ------------------------------------------------------ create_sample_city
\* the calls create_sample_city makes, in order
SampleCityCalls ==
    << <<CityHQ>>, <<CityA>>, <<CityB>>, <<CityC>>, <<CityD>>,
       <<CityHQ, CityA, 5>>, <<CityHQ, CityB, 10>>, <<CityA, CityB, 3>>,
       <<CityA, CityC, 8>>, <<CityB, CityC, 6>>, <<CityB, CityD, 7>>,
       <<CityC, CityD, 4>> >>

\* the next call of create_sample_city
CreateSampleCityStep ==
    /\ calls < Len(SampleCityCalls)
    /\ LET call == SampleCityCalls[calls + 1]
           g == IF Len(call) = 1 THEN add_vertex(Graph, call[1])
                ELSE add_edge(Graph, call[1], call[2], call[3])
       IN /\ vertices' = g.vertices
          /\ edges' = g.edges
    /\ calls' = calls + 1
    /\ UNCHANGED call_log

\* the names a route on the sample city is asked for: its locations and one more
SampleQueryNames == 1..(CityHQ + 1)

\* -------------------------------------------------------------- emergency_mst
\* heappush of (weight, from, neighbor) for every neighbour the test lets through
RECURSIVE PushEdges(_, _, _, _, _)
PushEdges(queue, from, nbrs, skip, i) ==
    IF i > Len(nbrs) THEN queue
    ELSE IF nbrs[i][1] \in skip
    THEN PushEdges(queue, from, nbrs, skip, i + 1)
    ELSE PushEdges(heappush(queue, <<nbrs[i][2], from, nbrs[i][1]>>),
                   from, nbrs, skip, i + 1)

\* the while loop of prims_algorithm
RECURSIVE PrimLoop(_)
PrimLoop(s) ==
    IF s.edges_queue = <<>> \/ ~(Cardinality(s.mst_vertices) < Len(vertices)) THEN s
    ELSE LET top == heappop(s.edges_queue)
             weight == top.item[1]
             source == top.item[2]
             destination == top.item[3]
         IN IF destination \in s.mst_vertices
            THEN PrimLoop([s EXCEPT !.edges_queue = top.heap])
            ELSE LET in_tree == s.mst_vertices \cup {destination}
                 IN PrimLoop([mst_vertices |-> in_tree,
                              mst_edges |-> Append(s.mst_edges,
                                                   <<source, destination, weight>>),
                              total_cost |-> s.total_cost + weight,
                              edges_queue |-> PushEdges(top.heap, destination,
                                                        get_neighbors(destination),
                                                        in_tree, 1)])

\* mutant: the tree is grown from the last-listed vertex
LastVertex == vertices[Len(vertices)]

\* graph.vertices[0]
FirstVertex == vertices[1]

prims_algorithm ==
    IF vertices = <<>> THEN [mst_edges |-> <<>>, total_cost |-> 0]
    ELSE LET start == FirstVertex
             s == PrimLoop([mst_vertices |-> {start},
                            mst_edges |-> <<>>,
                            total_cost |-> 0,
                            edges_queue |-> PushEdges(<<>>, start, get_neighbors(start),
                                                      {}, 1)])
         IN [mst_edges |-> s.mst_edges, total_cost |-> s.total_cost]

\* find_set with its path compression: the new parent dict and the root
RECURSIVE find_set(_, _)
find_set(parent, vertex) ==
    IF parent[vertex] # vertex
    THEN LET r == find_set(parent, parent[vertex])
         IN [parent |-> [r.parent EXCEPT ![vertex] = r.root], root |-> r.root]
    ELSE [parent |-> parent, root |-> vertex]

union_sets(parent, rank, u, v) ==
    LET fu == find_set(parent, u)
        fv == find_set(fu.parent, v)
        root_u == fu.root
        root_v == fv.root
        p == fv.parent
    IN IF root_u # root_v
       THEN IF rank[root_u] < rank[root_v]
            THEN [parent |-> [p EXCEPT ![root_u] = root_v], rank |-> rank]
            ELSE IF rank[root_u] > rank[root_v]
            THEN [parent |-> [p EXCEPT ![root_v] = root_u], rank |-> rank]
            ELSE [parent |-> [p EXCEPT ![root_v] = root_u],
                  rank |-> [rank EXCEPT ![root_u] = @ + 1]]
       ELSE [parent |-> p, rank |-> rank]

\* the (vertex, neighbor, weight) entries with vertex < neighbor, in iteration order
\* mutant: an edge is collected from both of its endpoints
BeforeOrAfter(vertex, neighbor) == vertex # neighbor

\* vertex < neighbor
Before(vertex, neighbor) == vertex < neighbor

RECURSIVE NeighborEdges(_, _, _)
NeighborEdges(vertex, nbrs, i) ==
    IF i > Len(nbrs) THEN <<>>
    ELSE (IF Before(vertex, nbrs[i][1]) THEN <<<<vertex, nbrs[i][1], nbrs[i][2]>>>> ELSE <<>>)
         \o NeighborEdges(vertex, nbrs, i + 1)

RECURSIVE CollectEdges(_)
CollectEdges(i) ==
    IF i > Len(vertices) THEN <<>>
    ELSE NeighborEdges(vertices[i], get_neighbors(vertices[i]), 1) \o CollectEdges(i + 1)

\* list.sort(key=weight): stable, ascending
RECURSIVE InsertByWeight(_, _)
InsertByWeight(sorted, e) ==
    IF sorted = <<>> THEN <<e>>
    ELSE IF e[3] < sorted[1][3] THEN <<e>> \o sorted
    ELSE <<sorted[1]>> \o InsertByWeight(Tail(sorted), e)

\* mutant: the edges are left in collection order
SortByWeightSkipped(es) == es

RECURSIVE SortByWeight(_)
SortByWeight(es) ==
    IF es = <<>> THEN <<>>
    ELSE InsertByWeight(SortByWeight(SubSeq(es, 1, Len(es) - 1)), es[Len(es)])

\* the for loop over the sorted edges
RECURSIVE KruskalLoop(_, _, _)
KruskalLoop(s, all_edges, i) ==
    IF i > Len(all_edges) THEN s
    ELSE LET source == all_edges[i][1]
             destination == all_edges[i][2]
             weight == all_edges[i][3]
             fs == find_set(s.parent, source)
             fd == find_set(fs.parent, destination)
         IN IF fs.root # fd.root
            THEN LET u == union_sets(fd.parent, s.rank, source, destination)
                 IN KruskalLoop([parent |-> u.parent,
                                 rank |-> u.rank,
                                 mst_edges |-> Append(s.mst_edges,
                                                      <<source, destination, weight>>),
                                 total_cost |-> s.total_cost + weight],
                                all_edges, i + 1)
            ELSE KruskalLoop([s EXCEPT !.parent = fd.parent], all_edges, i + 1)

kruskals_algorithm ==
    LET all_edges == SortByWeight(CollectEdges(1))
        s == KruskalLoop([parent |-> [v \in Range(vertices) |-> v],
                          rank |-> [v \in Range(vertices) |-> 0],
                          mst_edges |-> <<>>,
                          total_cost |-> 0],
                         all_edges, 1)
    IN [mst_edges |-> s.mst_edges, total_cost |-> s.total_cost]

\* compare_algorithms: both algorithms on the same graph
CompareAlgorithms ==
    /\ mst_pc = "build"
    /\ prim_result' = prims_algorithm
    /\ kruskal_result' = kruskals_algorithm
    /\ mst_pc' = "compared"
    /\ UNCHANGED <<graphVars, routeVars, planVars, allocVars, raceVars, schedVars>>

\* ------------------------------------------------------------ the city grid
\* build_city_graph: a GridRows x GridCols grid; node k is the k-th label, row by
\* row, which is also the iteration order of G.nodes.
GridNodes == 1..(GridRows * GridCols)

RowOf(n) == (n - 1) \div GridCols

ColOf(n) == (n - 1) % GridCols

GridAdjacent(u, v) ==
    \/ RowOf(u) = RowOf(v) /\ (ColOf(u) = ColOf(v) + 1 \/ ColOf(v) = ColOf(u) + 1)
    \/ ColOf(u) = ColOf(v) /\ (RowOf(u) = RowOf(v) + 1 \/ RowOf(v) = RowOf(u) + 1)

RECURSIVE SeqOfSet(_)
SeqOfSet(S) ==
    IF S = {} THEN <<>>
    ELSE LET m == CHOOSE x \in S : \A y \in S : x <= y
         IN <<m>> \o SeqOfSet(S \ {m})

\* G[u].items(): the neighbours of u with the edge's weight
GridNeighbors(u) ==
    LET ns == SeqOfSet({v \in GridNodes : GridAdjacent(u, v)})
    IN [i \in 1..Len(ns) |-> <<ns[i], EdgeTime>>]

\* ------------------------------------------- shortest_path (test/main.py)
RECURSIVE RelaxGrid(_, _, _, _, _)
RelaxGrid(s, current_dist, u, nbrs, i) ==
    IF i > Len(nbrs) THEN s
    ELSE LET v == nbrs[i][1]
             nd == current_dist + nbrs[i][2]
         IN IF nd < s.dist[v]
            THEN RelaxGrid([s EXCEPT !.dist[v] = nd,
                                     !.prev[v] = u,
                                     !.heap = heappush(@, <<nd, v>>)],
                           current_dist, u, nbrs, i + 1)
            ELSE RelaxGrid(s, current_dist, u, nbrs, i + 1)

RECURSIVE ShortestPathLoop(_, _)
ShortestPathLoop(s, dst) ==
    IF s.heap = <<>> THEN s
    ELSE LET top == heappop(s.heap)
             current_dist == top.item[1]
             u == top.item[2]
             s0 == [s EXCEPT !.heap = top.heap]
         IN IF u \in s.visited THEN ShortestPathLoop(s0, dst)
            ELSE LET s1 == [s0 EXCEPT !.visited = @ \cup {u}]
                 IN IF u = dst THEN s1
                    ELSE ShortestPathLoop(
                             RelaxGrid(s1, current_dist, u, GridNeighbors(u), 1), dst)

\* EmergencyResponseManager.shortest_path: the distance it returns
shortest_path_main(src, dst) ==
    ShortestPathLoop([dist |-> [n \in GridNodes |-> IF n = src THEN 0 ELSE Infinity],
                      prev |-> [n \in GridNodes |-> None],
                      heap |-> <<<<0, src>>>>,
                      visited |-> {}], dst).dist[dst]

\* nx.single_source_dijkstra(G, source, target, weight='weight'): the least total
\* weight of a path from source to target (the library's contract)
RECURSIVE GridRounds(_, _)
GridRounds(d, k) ==
    IF k = 0 THEN d
    ELSE GridRounds([v \in GridNodes |->
                        SetMinOf({d[v]} \cup {d[u] + EdgeTime :
                                              u \in {x \in GridNodes : GridAdjacent(x, v)
                                                                        /\ d[x] # Infinity}})],
                    k - 1)

shortest_path_nx(source, target) ==
    GridRounds([n \in GridNodes |-> IF n = source THEN 0 ELSE Infinity],
               GridRows * GridCols)[target]

\* the travel costs of the fixed grid, computed once
CostMain == [a \in GridNodes |-> [b \in GridNodes |-> shortest_path_main(a, b)]]

CostNx == [a \in GridNodes |-> [b \in GridNodes |-> shortest_path_nx(a, b)]]

shortest_path(src, dst) ==
    IF impl = "main" THEN CostMain[src][dst] ELSE CostNx[src][dst]

\* ------------------------------------------------------ allocate_resources
\* mutant: a location counts as stocked even when its count is 0
AvailableAtZero(count) == count >= 0

\* mutant: a location counts as stocked only from two units on
AvailableFromTwo(count) == count > 1

\* G.nodes[candidate][rtype] > 0
Available(count) == count > 0

\* mutant: a later candidate at the same distance replaces the earlier one
CloserOrEqual(d, best_d) == d <= best_d

\* d < best_d
Closer(d, best_d) == d < best_d

\* the scan  for cand in G.nodes , from node cand on
RECURSIVE ScanCandidates(_, _, _, _, _)
ScanCandidates(inv, rtype, node, best, cand) ==
    IF cand > GridRows * GridCols THEN best
    ELSE IF Available(inv[cand][rtype])
    THEN LET d == shortest_path(cand, node)
         IN IF Closer(d, best.best_d)
            THEN ScanCandidates(inv, rtype, node,
                                [best_d |-> d, best_node |-> cand], cand + 1)
            ELSE ScanCandidates(inv, rtype, node, best, cand + 1)
    ELSE ScanCandidates(inv, rtype, node, best, cand + 1)

\* test.py:  best_node is None  (negated); main.py:  if best_node  (a label is a
\* non-empty string, so it is true exactly when it is not None)
Found(best_node) == best_node # None

\* the key of an incident in the result dict: inc_id in test.py, node in main.py
KeyOf(inc) == IF impl = "test" THEN inc.id ELSE inc.node

\* the body of  for _ in range(count) : scan, then commit or record absent
ServeUnit(st, key, rtype, node) ==
    LET best == ScanCandidates(st.inventory, rtype, node,
                               [best_d |-> Infinity, best_node |-> None], 1)
    IN IF Found(best.best_node)
       THEN [assignments |-> [st.assignments EXCEPT ![key] =
                                 Append(@, <<rtype, best.best_node, best.best_d>>)],
             inventory |-> [st.inventory EXCEPT ![best.best_node][rtype] = @ - 1]]
       ELSE [assignments |-> [st.assignments EXCEPT ![key] =
                                 Append(@, <<rtype, None, None>>)],
             inventory |-> st.inventory]

\* assignments[key] = []
OpenEntry(asg, key) == (key :> <<>>) @@ asg

\* the whole function, as nested loops over incidents, needs.items() and range(count)
RECURSIVE ServeType(_, _, _, _, _)
ServeType(st, key, rtype, node, count) ==
    IF count = 0 THEN st
    ELSE ServeType(ServeUnit(st, key, rtype, node), key, rtype, node, count - 1)

RECURSIVE ServeNeeds(_, _, _)
ServeNeeds(st, inc, rtype) ==
    IF rtype > Len(inc.needs) THEN st
    ELSE ServeNeeds(ServeType(st, KeyOf(inc), rtype, inc.node, inc.needs[rtype]),
                    inc, rtype + 1)

RECURSIVE allocate_resources(_, _)
allocate_resources(inv, incs) ==
    IF incs = <<>> THEN [assignments |-> <<>>, inventory |-> inv]
    ELSE LET st == allocate_resources(inv, SubSeq(incs, 1, Len(incs) - 1))
             inc == incs[Len(incs)]
         IN ServeNeeds([st EXCEPT !.assignments = OpenEntry(@, KeyOf(inc))], inc, 1)

\* the first resource type at or after position n that still has iterations to run
RECURSIVE NextNeed(_, _)
NextNeed(needs, n) ==
    IF n > Len(needs) THEN 0
    ELSE IF needs[n] > 0 THEN n
    ELSE NextNeed(needs, n + 1)

\* mutant: the list is served from its end
NextIncidentFromEnd == incidents[Len(incidents) - inc_i]

\* for ... in incidents: the incident the loop takes next
NextIncident == incidents[inc_i + 1]

\* the next incident is taken and  assignments[key] = []
BeginIncident ==
    /\ apc = "incident"
    /\ inc_i < Len(incidents)
    /\ LET inc == NextIncident
           n == NextNeed(inc.needs, 1)
       IN /\ assignments' = OpenEntry(assignments, KeyOf(inc))
          /\ serving' = inc
          /\ inc_i' = inc_i + 1
          /\ need_i' = n
          /\ unit_i' = 0
          /\ apc' = IF n = 0 THEN "incident" ELSE "unit"
    /\ UNCHANGED <<impl, inventory, inventory0, incidents, log>>

\* one iteration of  for _ in range(count)
AllocateUnit ==
    /\ apc = "unit"
    /\ LET st == ServeUnit([assignments |-> assignments, inventory |-> inventory],
                           KeyOf(serving), need_i, serving.node)
           entry == st.assignments[KeyOf(serving)][Len(st.assignments[KeyOf(serving)])]
           done == unit_i + 1
           n == IF done < serving.needs[need_i] THEN need_i
                ELSE NextNeed(serving.needs, need_i + 1)
       IN /\ assignments' = st.assignments
          /\ inventory' = st.inventory
          /\ log' = Append(log, <<inc_i, entry[1], entry[2], entry[3]>>)
          /\ need_i' = n
          /\ unit_i' = IF n = need_i THEN done ELSE 0
          /\ apc' = IF n = 0 THEN "incident" ELSE "unit"
    /\ UNCHANGED <<impl, inventory0, incidents, inc_i, serving>>

\* ------------------------------------------------- two passes, one inventory
Passes == {"first", "second"}

\* the iterations of  for rtype, count in needs.items(): for _ in range(count)
\* of one incident, as the list of their resource types
Units(inc) ==
    LET F[rtype \in 0..Len(inc.needs)] ==
            IF rtype = 0 THEN <<>>
            ELSE F[rtype - 1] \o [k \in 1..inc.needs[rtype] |-> rtype]
    IN F[Len(inc.needs)]

\* mutant: the steps of an iteration may always be taken apart
SeparateAlways == TRUE

\* whether the scan, the append and the decrement of one iteration are separate steps
Separate == ~atomic

\* the loop variable moves on after an iteration
RaceAdvance(p) ==
    /\ race_unit' = [race_unit EXCEPT ![p] = @ + 1]
    /\ race_pc' = [race_pc EXCEPT ![p] =
                      IF race_unit[p] + 1 = Len(Units(race_inc[p])) THEN "done" ELSE "scan"]

\* one iteration of  for _ in range(count)  taken as a single step
RaceAllocateUnit(p) ==
    /\ atomic
    /\ race_pc[p] = "scan"
    /\ LET st == ServeUnit([assignments |-> race_assign, inventory |-> inventory],
                           p, Units(race_inc[p])[race_unit[p] + 1], race_inc[p].node)
       IN /\ race_assign' = st.assignments
          /\ inventory' = st.inventory
    /\ RaceAdvance(p)
    /\ UNCHANGED <<impl, inventory0, incidents, apc, inc_i, need_i, unit_i, serving,
                   assignments, log, atomic, race_inc, race_best, race_load>>

\* for candidate in G.nodes: the availability checks and the choice of best_node
RaceScan(p) ==
    /\ Separate
    /\ race_pc[p] = "scan"
    /\ race_best' = [race_best EXCEPT ![p] =
                        ScanCandidates(inventory, Units(race_inc[p])[race_unit[p] + 1],
                                       race_inc[p].node,
                                       [best_d |-> Infinity, best_node |-> None], 1)]
    /\ race_pc' = [race_pc EXCEPT ![p] = "commit"]
    /\ UNCHANGED <<allocVars, atomic, race_inc, race_unit, race_load, race_assign>>

\* the append to assignments and, for a found unit, the read of the count by  -= 1
RaceCommit(p) ==
    /\ Separate
    /\ race_pc[p] = "commit"
    /\ LET rtype == Units(race_inc[p])[race_unit[p] + 1]
           best == race_best[p]
       IN IF Found(best.best_node)
          THEN /\ race_assign' = [race_assign EXCEPT ![p] =
                                     Append(@, <<rtype, best.best_node, best.best_d>>)]
               /\ race_load' = [race_load EXCEPT ![p] = inventory[best.best_node][rtype]]
               /\ race_pc' = [race_pc EXCEPT ![p] = "store"]
               /\ UNCHANGED race_unit
          ELSE /\ race_assign' = [race_assign EXCEPT ![p] = Append(@, <<rtype, None, None>>)]
               /\ RaceAdvance(p)
               /\ UNCHANGED race_load
    /\ UNCHANGED <<allocVars, atomic, race_inc, race_best>>

\* the write of the decremented count by  -= 1
RaceStore(p) ==
    /\ Separate
    /\ race_pc[p] = "store"
    /\ inventory' = [inventory EXCEPT
                        ![race_best[p].best_node][Units(race_inc[p])[race_unit[p] + 1]] =
                            race_load[p] - 1]
    /\ RaceAdvance(p)
    /\ UNCHANGED <<impl, inventory0, incidents, apc, inc_i, need_i, unit_i, serving,
                   assignments, log, atomic, race_inc, race_best, race_load, race_assign>>

\* return assignments
ReturnAssignments ==
    /\ apc = "incident"
    /\ inc_i = Len(incidents)
    /\ apc' = "returned"
    /\ UNCHANGED <<impl, inventory, inventory0, incidents, inc_i, need_i, unit_i,
                   serving, assignments, log>>

\* ------------------------------------------- knapsack_incident_assignment
\* Priority(Enum): INFO = 1 .. CRITICAL = 5
PriorityValues == 1..5

\* mutation of Max: the incident is taken whenever it fits
MaxTakesFirst(a, b) == a

Max(a, b) == IF a >= b THEN a ELSE b

\* mutation of Fits: an incident that fills the remaining minutes exactly is left out
FitsStrictly(duration, w) == duration < w

\* if duration <= w
Fits(duration, w) == duration <= w

\* rows dp[0] .. dp[i] of the table; row 0 and column 0 keep their initial 0
RECURSIVE DpRows(_, _, _)
DpRows(incs, limit, i) ==
    IF i = 0 THEN [r \in {0} |-> [w \in 0..limit |-> 0]]
    ELSE LET dp == DpRows(incs, limit, i - 1)
             duration == incs[i].estimated_duration
             priority_value == incs[i].priority
             row == [w \in 0..limit |->
                        IF w = 0 THEN 0
                        ELSE IF Fits(duration, w)
                             THEN Max(priority_value + dp[i - 1][w - duration], dp[i - 1][w])
                             ELSE dp[i - 1][w]]
         IN (i :> row) @@ dp

\* mutation of Remaining: the backtrack forgets  w -= estimated_duration
RemainingUnchanged(w, duration) == w

\* w -= incidents[i-1].estimated_duration
Remaining(w, duration) == w - duration

\* for i in range(n, 0, -1): ... ; the incidents come out last first
RECURSIVE Backtrack(_, _, _, _, _)
Backtrack(incs, dp, i, w, selected) ==
    IF i = 0 THEN selected
    ELSE IF dp[i][w] # dp[i - 1][w]
         THEN Backtrack(incs, dp, i - 1, Remaining(w, incs[i].estimated_duration),
                        Append(selected, incs[i]))
         ELSE Backtrack(incs, dp, i - 1, w, selected)

\* if not incidents or time_limit <= 0
NothingToSelect(incs, limit) == incs = <<>> \/ limit <= 0

knapsack_incident_assignment(incs, limit) ==
    IF NothingToSelect(incs, limit) THEN <<>>
    ELSE LET n == Len(incs)
             dp == DpRows(incs, limit, n)
         IN Reverse(Backtrack(incs, dp, n, limit, <<>>))

\* create_sample_incidents: INC-001 .. INC-005 in list order
SampleDurations == <<120, 45, 90, 180, 60>>

\* CRITICAL, HIGH, MEDIUM, CRITICAL, LOW
SamplePriorities == <<5, 4, 3, 5, 2>>

create_sample_incidents ==
    [i \in 1..Len(SampleDurations) |->
        [id |-> i, estimated_duration |-> SampleDurations[i], priority |-> SamplePriorities[i]]]

\* Resource.__post_init__: a negative quantity raises ValueError.
Resource(quantity) ==
    IF quantity < 0 THEN [raised |-> TRUE, value |-> None]
    ELSE [raised |-> FALSE, value |-> quantity]

\* Incident: the dataclass constructor stores its arguments as given.
Incident(id, estimated_duration, priority) ==
    [raised |-> FALSE,
     value |-> [id |-> id, estimated_duration |-> estimated_duration, priority |-> priority]]

\* add_incident(Incident(..., required_resources=[Resource(type, quantity)], ...)):
\* an exception in a constructor leaves the scheduler's list as it was.
AddIncident(estimated_duration, priority, quantity) ==
    /\ kpc = "collect"
    /\ Len(kn_incidents) < MaxKnapIncidents
    /\ LET resource == Resource(quantity)
           incident == Incident(Len(kn_incidents) + 1, estimated_duration, priority)
       IN  IF resource.raised \/ incident.raised
           THEN /\ construct_error' = "ValueError"
                /\ UNCHANGED kn_incidents
           ELSE /\ construct_error' = ""
                /\ kn_incidents' = Append(kn_incidents, incident.value)
    /\ UNCHANGED <<kpc, time_limit, selected_incidents>>

\* schedule_optimal_response hands the scheduler's incidents to the knapsack.
ScheduleOptimalResponse ==
    /\ kpc = "collect"
    /\ kpc' = "called"
    /\ UNCHANGED <<kn_incidents, time_limit, selected_incidents, construct_error>>

KnapsackAssign ==
    /\ kpc = "called"
    /\ selected_incidents' = knapsack_incident_assignment(kn_incidents, time_limit)
    /\ kpc' = "returned"
    /\ UNCHANGED <<kn_incidents, time_limit, construct_error>>

\* ---------------------------------------------- activity_selection_greedy
\* x.time + timedelta(minutes=x.estimated_duration)
EndTime(x) == x.time + x.estimated_duration

\* sorted(incidents, key=end time): stable, an incident goes behind its equals
RECURSIVE InsertByEnd(_, _)
InsertByEnd(sorted, e) ==
    IF sorted = <<>> THEN <<e>>
    ELSE IF EndTime(e) < EndTime(sorted[1]) THEN <<e>> \o sorted
    ELSE <<sorted[1]>> \o InsertByEnd(Tail(sorted), e)

\* mutation of SortedByEnd: the incidents are taken in input order
SortedByEndSkipped(incs) == incs

RECURSIVE SortedByEnd(_)
SortedByEnd(incs) ==
    IF incs = <<>> THEN <<>>
    ELSE InsertByEnd(SortedByEnd(SubSeq(incs, 1, Len(incs) - 1)), incs[Len(incs)])

\* mutation of StartsAfter: an incident may start one minute early
StartsAfterNearly(start_time, last_end_time) == start_time >= last_end_time - 1

\* start_time >= last_end_time
StartsAfter(start_time, last_end_time) == start_time >= last_end_time

\* for incident in sort_result; last_end_time is <<>> for None, else <<end>>
RECURSIVE SelectLoop(_, _, _, _)
SelectLoop(sorted_incidents, i, sel, last_end_time) ==
    IF i > Len(sorted_incidents) THEN sel
    ELSE LET incident == sorted_incidents[i]
             start_time == incident.time
             end_time == EndTime(incident)
         IN IF last_end_time = <<>> \/ StartsAfter(start_time, last_end_time[1])
            THEN SelectLoop(sorted_incidents, i + 1, Append(sel, incident), <<end_time>>)
            ELSE SelectLoop(sorted_incidents, i + 1, sel, last_end_time)

activity_selection_greedy(incs) ==
    IF incs = <<>> THEN <<>>
    ELSE SelectLoop(SortedByEnd(incs), 1, <<>>, <<>>)

ActivitySelect ==
    /\ gpc = "called"
    /\ act_selected' = activity_selection_greedy(act_incidents)
    /\ gpc' = "returned"
    /\ UNCHANGED act_incidents

\* ------------------------------------------------------------- the sorts
\* str < str: by the first differing letter, a proper prefix first
RECURSIVE StrLess(_, _)
StrLess(a, b) ==
    IF b = <<>> THEN FALSE
    ELSE IF a = <<>> THEN TRUE
    ELSE IF a[1] # b[1] THEN a[1] < b[1]
    ELSE StrLess(Tail(a), Tail(b))

\* the key functions the scheduler hands to its sorts (sort_by_*), by name
\*   "priority"      lambda x: x.priority.value
\*   "neg_priority"  lambda x: -x.priority.value
\*   "time"          lambda x: x.time   and   lambda x: x.time.timestamp()
\*   "location"      lambda x: x.location
\*   "first_letter"  lambda x: ord(x.location[0]) if x.location else 0
Key(kf, x) ==
    CASE kf = "priority" -> x.priority
      [] kf = "neg_priority" -> 0 - x.priority
      [] kf = "time" -> x.time
      [] kf = "location" -> x.location
      [] kf = "first_letter" -> IF x.location # <<>> THEN x.location[1] ELSE 0

\* key < key; the keys of "location" are strings
KeyLess(kf, a, b) == IF kf = "location" THEN StrLess(a, b) ELSE a < b

\* mutation of KeyAtMost: the right run wins a tie
KeyBelow(kf, a, b) == KeyLess(kf, a, b)

\* key_func(left[i]) <= key_func(right[j])
KeyAtMost(kf, a, b) == a = b \/ KeyLess(kf, a, b)

\* _merge(left, right, key_func)
RECURSIVE merge(_, _, _)
merge(left, right, kf) ==
    IF left = <<>> THEN right
    ELSE IF right = <<>> THEN left
    ELSE IF KeyAtMost(kf, Key(kf, left[1]), Key(kf, right[1]))
         THEN <<left[1]>> \o merge(Tail(left), right, kf)
         ELSE <<right[1]>> \o merge(left, Tail(right), kf)

RECURSIVE merge_sort_incidents(_, _)
merge_sort_incidents(incs, kf) ==
    IF Len(incs) <= 1 THEN incs
    ELSE LET mid == Len(incs) \div 2
             left == merge_sort_incidents(SubSeq(incs, 1, mid), kf)
             right == merge_sort_incidents(SubSeq(incs, mid + 1, Len(incs)), kf)
         IN merge(left, right, kf)

\* mutant: the pivot is moved to the front of the incidents equal to it
RECURSIVE quick_sort_pivot_first(_, _)
quick_sort_pivot_first(incs, kf) ==
    IF Len(incs) <= 1 THEN incs
    ELSE LET at == (Len(incs) \div 2) + 1
             pivot == incs[at]
             pivot_value == Key(kf, pivot)
             rest == SubSeq(incs, 1, at - 1) \o SubSeq(incs, at + 1, Len(incs))
             left == SelectSeq(rest, LAMBDA x : KeyLess(kf, Key(kf, x), pivot_value))
             middle == <<pivot>> \o SelectSeq(rest, LAMBDA x : Key(kf, x) = pivot_value)
             right == SelectSeq(rest, LAMBDA x : KeyLess(kf, pivot_value, Key(kf, x)))
         IN quick_sort_pivot_first(left, kf) \o middle \o quick_sort_pivot_first(right, kf)

RECURSIVE quick_sort_incidents(_, _)
quick_sort_incidents(incs, kf) ==
    IF Len(incs) <= 1 THEN incs
    ELSE LET pivot == incs[(Len(incs) \div 2) + 1]
             pivot_value == Key(kf, pivot)
             left == SelectSeq(incs, LAMBDA x : KeyLess(kf, Key(kf, x), pivot_value))
             middle == SelectSeq(incs, LAMBDA x : Key(kf, x) = pivot_value)
             right == SelectSeq(incs, LAMBDA x : KeyLess(kf, pivot_value, Key(kf, x)))
         IN quick_sort_incidents(left, kf) \o middle \o quick_sort_incidents(right, kf)

\* (k1, incident1) < (k2, incident2): the keys decide; on equal keys the
\* incidents are compared, and Incident (a dataclass without order) has no <
TupleBefore(a, b) ==
    IF a[1] # b[1] THEN (IF a[1] < b[1] THEN "yes" ELSE "no")
    ELSE IF a[2] = b[2] THEN "no"
    ELSE "TypeError"

\* heapq._siftdown(heap, startpos, pos); list index p is position p + 1 here
RECURSIVE heapq_siftdown(_, _, _, _)
heapq_siftdown(heap, startpos, pos, newitem) ==
    IF pos > startpos
    THEN LET parentpos == (pos - 1) \div 2
             parent == heap[parentpos + 1]
             before == TupleBefore(newitem, parent)
         IN IF before = "TypeError" THEN [heap |-> heap, raised |-> TRUE]
            ELSE IF before = "yes"
                 THEN heapq_siftdown([heap EXCEPT ![pos + 1] = parent],
                                     startpos, parentpos, newitem)
                 ELSE [heap |-> [heap EXCEPT ![pos + 1] = newitem], raised |-> FALSE]
    ELSE [heap |-> [heap EXCEPT ![pos + 1] = newitem], raised |-> FALSE]

\* the while loop of heapq._siftup: the smaller child moves up until a leaf
RECURSIVE SiftupLoop(_, _, _)
SiftupLoop(heap, pos, childpos) ==
    IF childpos < Len(heap)
    THEN LET rightpos == childpos + 1
             before == IF rightpos < Len(heap)
                       THEN TupleBefore(heap[childpos + 1], heap[rightpos + 1])
                       ELSE "yes"
             child == IF before = "no" THEN rightpos ELSE childpos
         IN IF before = "TypeError" THEN [heap |-> heap, pos |-> pos, raised |-> TRUE]
            ELSE SiftupLoop([heap EXCEPT ![pos + 1] = heap[child + 1]], child, 2 * child + 1)
    ELSE [heap |-> heap, pos |-> pos, raised |-> FALSE]

\* heapq._siftup(heap, pos)
heapq_siftup(heap, pos) ==
    LET newitem == heap[pos + 1]
        down == SiftupLoop(heap, pos, 2 * pos + 1)
    IN IF down.raised THEN [heap |-> down.heap, raised |-> TRUE]
       ELSE heapq_siftdown(down.heap, pos, down.pos, newitem)

\* heapq.heapify(x): for i in reversed(range(n//2)): _siftup(x, i)
RECURSIVE HeapifyLoop(_, _)
HeapifyLoop(h, i) ==
    IF h.raised \/ i < 0 THEN h
    ELSE HeapifyLoop(heapq_siftup(h.heap, i), i - 1)

heapq_heapify(x) == HeapifyLoop([heap |-> x, raised |-> FALSE], (Len(x) \div 2) - 1)

\* heapq.heappop(heap)
heapq_heappop(heap) ==
    LET lastelt == heap[Len(heap)]
        rest == SubSeq(heap, 1, Len(heap) - 1)
    IN IF rest # <<>>
       THEN LET sifted == heapq_siftup([rest EXCEPT ![1] = lastelt], 0)
            IN [item |-> rest[1], heap |-> sifted.heap, raised |-> sifted.raised]
       ELSE [item |-> lastelt, heap |-> rest, raised |-> FALSE]

\* while heap: _, incident = heapq.heappop(heap); sort_result.append(incident)
RECURSIVE HeapSortLoop(_, _)
HeapSortLoop(heap, sorted) ==
    IF heap = <<>> THEN [raised |-> FALSE, value |-> sorted]
    ELSE LET popped_item == heapq_heappop(heap)
         IN IF popped_item.raised THEN [raised |-> TRUE, value |-> <<>>]
            ELSE HeapSortLoop(popped_item.heap, Append(sorted, popped_item.item[2]))

\* -key_func(incident)
HeapKey(kf, x) == 0 - Key(kf, x)

heap_sort_incidents(incs, kf) ==
    IF incs = <<>> THEN [raised |-> FALSE, value |-> <<>>]
    ELSE LET heap == heapq_heapify([i \in 1..Len(incs) |-> <<HeapKey(kf, incs[i]), incs[i]>>])
         IN IF heap.raised THEN [raised |-> TRUE, value |-> <<>>]
            ELSE HeapSortLoop(heap.heap, <<>>)

\* the numeric key functions
NumericKeys == {"priority", "neg_priority", "time", "first_letter"}

\* merge_sort_incidents(self.incidents, key_func) is called
MergeSort(kf) ==
    /\ sort_pc = "called"
    /\ algorithm' = "merge"
    /\ key_func' = kf
    /\ sort_result' = merge_sort_incidents(self_incidents, kf)
    /\ sort_pc' = "returned"
    /\ UNCHANGED <<self_incidents, sort_by, sort_name, sort_error>>

\* quick_sort_incidents(self.incidents, key_func) is called
QuickSort(kf) ==
    /\ sort_pc = "called"
    /\ algorithm' = "quick"
    /\ key_func' = kf
    /\ sort_result' = quick_sort_incidents(self_incidents, kf)
    /\ sort_pc' = "returned"
    /\ UNCHANGED <<self_incidents, sort_by, sort_name, sort_error>>

\* heap_sort_incidents(self.incidents, key_func) is called
HeapSort(kf) ==
    /\ sort_pc = "called"
    /\ algorithm' = "heap"
    /\ key_func' = kf
    /\ LET out == heap_sort_incidents(self_incidents, kf)
       IN /\ sort_result' = out.value
          /\ sort_pc' = IF out.raised THEN "raised" ELSE "returned"
          /\ sort_error' = IF out.raised THEN "TypeError" ELSE ""
    /\ UNCHANGED <<self_incidents, sort_by, sort_name>>

\* ------------------------------------------------------ strategy names
\* A string is the sequence of its characters, a character a pair
\* <<letter, upper>>: the letter in lower case and whether it is written in
\* upper case.
Text(letters) == [i \in 1..Len(letters) |-> <<letters[i], FALSE>>]

\* str.lower()
lower(name) == [i \in 1..Len(name) |-> <<name[i][1], FALSE>>]

\* mutation of Named: a name is taken for a word it starts with
NamedByPrefix(name, word) ==
    Len(name) >= Len(word) /\ SubSeq(name, 1, Len(word)) = Text(word)

\* name == "word"
Named(name, word) == name = Text(word)

\* plan_infrastructure(city, algorithm)
plan_infrastructure(name) ==
    IF Named(lower(name), <<"p", "r", "i", "m">>)
    THEN [raised |-> FALSE, value |-> prims_algorithm]
    ELSE IF Named(lower(name), <<"k", "r", "u", "s", "k", "a", "l">>)
    THEN [raised |-> FALSE, value |-> kruskals_algorithm]
    ELSE [raised |-> TRUE, value |-> [mst_edges |-> <<>>, total_cost |-> 0]]

PlanInfrastructure(name) ==
    /\ plan_pc = "called"
    /\ plan_algorithm' = name
    /\ LET out == plan_infrastructure(name)
       IN /\ plan_result' = out.value
          /\ plan_pc' = IF out.raised THEN "raised" ELSE "returned"

\* the if / elif / else chain of sort_by_priority, sort_by_time and
\* sort_by_location: the sort named, with the key function the method gives it
SortNamed(name, incs, merge_key, quick_key, heap_key) ==
    IF Named(name, <<"m", "e", "r", "g", "e">>)
    THEN [error |-> "", value |-> merge_sort_incidents(incs, merge_key),
          algorithm |-> "merge", key_func |-> merge_key]
    ELSE IF Named(name, <<"q", "u", "i", "c", "k">>)
    THEN [error |-> "", value |-> quick_sort_incidents(incs, quick_key),
          algorithm |-> "quick", key_func |-> quick_key]
    ELSE IF Named(name, <<"h", "e", "a", "p">>)
    THEN LET out == heap_sort_incidents(incs, heap_key)
         IN [error |-> IF out.raised THEN "TypeError" ELSE "", value |-> out.value,
             algorithm |-> "heap", key_func |-> heap_key]
    ELSE [error |-> "ValueError", value |-> <<>>, algorithm |-> "", key_func |-> ""]

sort_by_priority(name, incs) == SortNamed(name, incs, "neg_priority", "neg_priority", "priority")

sort_by_time(name, incs) == SortNamed(name, incs, "time", "time", "time")

sort_by_location(name, incs) == SortNamed(name, incs, "location", "location", "first_letter")

\* what one of the three methods leaves behind
SortByReturns(method, name, out) ==
    /\ sort_pc = "called"
    /\ sort_by' = method
    /\ sort_name' = name
    /\ algorithm' = out.algorithm
    /\ key_func' = out.key_func
    /\ sort_result' = out.value
    /\ sort_error' = out.error
    /\ sort_pc' = IF out.error = "" THEN "returned" ELSE "raised"
    /\ UNCHANGED self_incidents

SortByPriority(name) == SortByReturns("priority", name, sort_by_priority(name, self_incidents))

SortByTime(name) == SortByReturns("time", name, sort_by_time(name, self_incidents))

SortByLocation(name) == SortByReturns("location", name, sort_by_location(name, self_incidents))

\* a word written with at most MaxUpper of its letters in upper case
Casings(word) ==
    {[i \in 1..Len(word) |-> <<word[i], i \in U>>] :
        U \in {V \in SUBSET (1..Len(word)) : Cardinality(V) <= MaxUpper}}

\* the strategy names tried: the recognised ones, a longer one, a foreign one, the empty one
StrategyWords ==
    { <<"p", "r", "i", "m">>, <<"k", "r", "u", "s", "k", "a", "l">>,
      <<"m", "e", "r", "g", "e">>, <<"q", "u", "i", "c", "k">>, <<"h", "e", "a", "p">>,
      <<"p", "r", "i", "m", "s">>, <<"h", "e", "a", "p", "s">>, <<"b", "f", "s">>, <<>> }

StrategyNames == UNION {Casings(word) : word \in StrategyWords}

\* ------------------------------------------------------------ specifications
InitGraph ==
    /\ vertices = <<>>
    /\ edges = <<>>
    /\ calls = 0
    /\ call_log = <<>>

InitRoutes ==
    /\ rpc = "build"
    /\ start_vertex = None
    /\ end_vertex = None
    /\ distances = <<>>
    /\ predecessors = <<>>
    /\ popped = <<>>
    /\ path = <<>>
    /\ current = None
    /\ result = [path |-> <<>>, total_time |-> 0]

\* plan_infrastructure is not called
PlanOff ==
    /\ plan_pc = "off"
    /\ plan_algorithm = <<>>
    /\ plan_result = [mst_edges |-> <<>>, total_cost |-> 0]

\* plan_infrastructure(city, algorithm) is about to be called on the city being built
InitPlan ==
    /\ plan_pc = "called"
    /\ plan_algorithm = <<>>
    /\ plan_result = [mst_edges |-> <<>>, total_cost |-> 0]

InitMST ==
    /\ mst_pc = "build"
    /\ prim_result = [mst_edges |-> <<>>, total_cost |-> 0]
    /\ kruskal_result = [mst_edges |-> <<>>, total_cost |-> 0]

TotalUnits(inv) == SumSeq([k \in 1..(GridRows * GridCols * NumTypes) |->
                              inv[((k - 1) \div NumTypes) + 1][((k - 1) % NumTypes) + 1]])

Inventories ==
    {inv \in [GridNodes -> [1..NumTypes -> 0..MaxCount]] : TotalUnits(inv) <= MaxUnits}

NeedsDicts == {n \in [1..NumTypes -> 0..MaxNeed] : SumSeq(n) <= MaxNeed}

IncidentLists ==
    UNION {{[i \in 1..k |-> [id |-> i, node |-> l[i][1], needs |-> l[i][2]]] :
               l \in [1..k -> GridNodes \X NeedsDicts]} : k \in 0..MaxIncidents}

\* no allocation pass is running
AllocOff ==
    /\ impl = "test"
    /\ inventory = <<>>
    /\ inventory0 = <<>>
    /\ incidents = <<>>
    /\ apc = "off"
    /\ inc_i = 0
    /\ need_i = 0
    /\ unit_i = 0
    /\ serving = [id |-> 0, node |-> 0, needs |-> <<>>]
    /\ assignments = <<>>
    /\ log = <<>>

\* no concurrent passes are running
RaceOff ==
    /\ atomic = TRUE
    /\ race_pc = <<>>
    /\ race_inc = <<>>
    /\ race_unit = <<>>
    /\ race_best = <<>>
    /\ race_load = <<>>
    /\ race_assign = <<>>

\* allocate_resources(G, incidents) is entered
InitAlloc ==
    /\ impl \in {"test", "main"}
    /\ inventory \in Inventories
    /\ inventory0 = inventory
    /\ incidents \in IncidentLists
    /\ apc = "incident"
    /\ inc_i = 0
    /\ need_i = 0
    /\ unit_i = 0
    /\ serving = [id |-> 0, node |-> 0, needs |-> <<>>]
    /\ assignments = <<>>
    /\ log = <<>>

\* the incident lists handed to the scheduler; an incident is told apart by its id
KnapIncidentLists ==
    UNION {{[i \in 1..k |-> [id |-> i, estimated_duration |-> l[i][1], priority |-> l[i][2]]] :
               l \in [1..k -> (0..MaxDuration) \X PriorityValues]} : k \in 0..MaxKnapIncidents}

\* the scheduler is not called
KnapOff ==
    /\ kpc = "off"
    /\ construct_error = ""
    /\ kn_incidents = <<>>
    /\ time_limit = 0
    /\ selected_incidents = <<>>

\* activity_selection_greedy is not called
ActOff ==
    /\ gpc = "off"
    /\ act_incidents = <<>>
    /\ act_selected = <<>>

\* no sort is called
SortOff ==
    /\ sort_pc = "off"
    /\ self_incidents = <<>>
    /\ algorithm = ""
    /\ key_func = ""
    /\ sort_result = <<>>
    /\ sort_by = ""
    /\ sort_name = <<>>
    /\ sort_error = ""

SchedOff == KnapOff /\ ActOff /\ SortOff

\* location strings: sequences of letters (code points)
Locations == UNION {[1..n -> 1..MaxLetter] : n \in 0..MaxLocationLen}

\* the incident lists a scheduler holds
SortIncidentLists ==
    UNION {{[i \in 1..k |-> [id |-> i, priority |-> l[i][1], time |-> l[i][2],
                             location |-> l[i][3]]] :
               l \in [1..k -> (1..MaxSortPriority) \X (0..MaxSortTime) \X Locations]} :
           k \in 0..MaxSortIncidents}

\* a scheduler with its incidents, about to sort them
InitSort ==
    /\ sort_pc = "called"
    /\ self_incidents \in SortIncidentLists
    /\ algorithm = ""
    /\ key_func = ""
    /\ sort_result = <<>>
    /\ sort_by = ""
    /\ sort_name = <<>>
    /\ sort_error = ""

\* the incident lists handed to activity_selection_greedy
ActIncidentLists ==
    UNION {{[i \in 1..k |-> [id |-> i, time |-> l[i][1], estimated_duration |-> l[i][2]]] :
               l \in [1..k -> (0..MaxTime) \X (0..MaxSpan)]} : k \in 0..MaxActIncidents}

\* activity_selection_greedy(incidents) is entered
InitAct ==
    /\ gpc = "called"
    /\ act_incidents \in ActIncidentLists
    /\ act_selected = <<>>

\* knapsack_incident_assignment(incidents, time_limit) is entered
InitKnap ==
    /\ kpc = "called"
    /\ construct_error = ""
    /\ kn_incidents \in KnapIncidentLists
    /\ time_limit \in (0 - 1)..MaxTimeLimit
    /\ selected_incidents = <<>>

\* knapsack_incident_assignment(create_sample_incidents(), time_limit) is entered
InitKnapSample ==
    /\ kpc = "called"
    /\ construct_error = ""
    /\ kn_incidents = create_sample_incidents
    /\ time_limit \in (DemoTimeLimit - SampleSlack)..(DemoTimeLimit + SampleSlack)
    /\ selected_incidents = <<>>

vars == <<graphVars, routeVars, mstVars, planVars, allocVars, raceVars, schedVars>>

Init == InitGraph /\ InitRoutes /\ InitMST /\ PlanOff /\ AllocOff /\ RaceOff /\ SchedOff

BuildStep ==
    \/ \E v \in Names : AddVertex(v)
    \/ \E a \in Names, b \in Names, w \in Weights : AddEdge(a, b, w)

\* the graph is built, then one route is asked for
NextRoutes ==
    \/ rpc = "build" /\ BuildStep /\ UNCHANGED <<routeVars, mstVars, planVars, allocVars, raceVars, schedVars>>
    \/ \E s \in Names, e \in Names : GetShortestPath(s, e)
    \/ WalkStep
    \/ ReturnPath

SpecRoutes == Init /\ [][NextRoutes]_vars

\* the same session with the loop of get_shortest_path running on: a call that
\* has started walking back keeps executing its loop and its return
InitRoutesFair == Init

SpecRoutesFair ==
    InitRoutesFair /\ [][NextRoutes]_vars /\ WF_vars(WalkStep) /\ WF_vars(ReturnPath)

\* the graph is built, then the two spanning-tree algorithms are compared
NextMST ==
    \/ mst_pc = "build" /\ BuildStep /\ UNCHANGED <<routeVars, mstVars, planVars, allocVars, raceVars, schedVars>>
    \/ CompareAlgorithms

SpecMST == Init /\ [][NextMST]_vars

\* An EmergencyGraph under any sequence of add_vertex and add_edge calls.
NextGraph ==
    \/ \E v \in Names :
          LoggedAddVertex(v) /\ UNCHANGED <<routeVars, mstVars, planVars, allocVars, raceVars, schedVars>>
    \/ \E a \in Names, b \in Names, w \in Weights :
          LoggedAddEdge(a, b, w) /\ UNCHANGED <<routeVars, mstVars, planVars, allocVars, raceVars, schedVars>>

InitGraphCalls == Init

SpecGraph == InitGraphCalls /\ [][NextGraph]_vars

\* the sample city is created, then one route on it is asked for
NextCity ==
    \/ rpc = "build" /\ CreateSampleCityStep
          /\ UNCHANGED <<routeVars, mstVars, planVars, allocVars, raceVars, schedVars>>
    \/ calls = Len(SampleCityCalls)
          /\ \E s \in SampleQueryNames, e \in SampleQueryNames : GetShortestPath(s, e)
    \/ WalkStep
    \/ ReturnPath

SpecCity == Init /\ [][NextCity]_vars

\* one allocation pass over an incident list and an inventory
NextAlloc ==
    \/ BeginIncident /\ UNCHANGED <<graphVars, routeVars, mstVars, planVars, raceVars, schedVars>>
    \/ AllocateUnit /\ UNCHANGED <<graphVars, routeVars, mstVars, planVars, raceVars, schedVars>>
    \/ ReturnAssignments /\ UNCHANGED <<graphVars, routeVars, mstVars, planVars, raceVars, schedVars>>

InitAllocPass == InitGraph /\ InitRoutes /\ InitMST /\ PlanOff /\ InitAlloc /\ RaceOff /\ SchedOff

SpecAlloc == InitAllocPass /\ [][NextAlloc]_vars

\* Two passes allocate_resources(G, [incident]) run against one inventory G.
InitRace ==
    /\ InitGraph /\ InitRoutes /\ InitMST /\ PlanOff /\ SchedOff
    /\ impl = "test"
    /\ inventory \in Inventories
    /\ inventory0 = inventory
    /\ incidents = <<>>
    /\ apc = "off"
    /\ inc_i = 0
    /\ need_i = 0
    /\ unit_i = 0
    /\ serving = [id |-> 0, node |-> 0, needs |-> <<>>]
    /\ assignments = <<>>
    /\ log = <<>>
    /\ atomic \in BOOLEAN
    /\ race_inc \in [Passes -> {l[1] : l \in {m \in IncidentLists : Len(m) = 1}}]
    /\ race_pc = [p \in Passes |-> IF Units(race_inc[p]) = <<>> THEN "done" ELSE "scan"]
    /\ race_unit = [p \in Passes |-> 0]
    /\ race_best = [p \in Passes |-> [best_d |-> Infinity, best_node |-> None]]
    /\ race_load = [p \in Passes |-> 0]
    /\ race_assign = [p \in Passes |-> <<>>]

NextRace ==
    \/ \E p \in Passes :
          RaceAllocateUnit(p) /\ UNCHANGED <<graphVars, routeVars, mstVars, planVars, schedVars>>
    \/ \E p \in Passes :
          RaceScan(p) /\ UNCHANGED <<graphVars, routeVars, mstVars, planVars, schedVars>>
    \/ \E p \in Passes :
          RaceCommit(p) /\ UNCHANGED <<graphVars, routeVars, mstVars, planVars, schedVars>>
    \/ \E p \in Passes :
          RaceStore(p) /\ UNCHANGED <<graphVars, routeVars, mstVars, planVars, schedVars>>

SpecRace == InitRace /\ [][NextRace]_vars

\* one call of knapsack_incident_assignment
NextKnap ==
    \/ KnapsackAssign /\ UNCHANGED <<graphVars, routeVars, mstVars, planVars, allocVars, raceVars, actVars, sortVars>>

InitKnapCall == InitGraph /\ InitRoutes /\ InitMST /\ PlanOff /\ AllocOff /\ RaceOff /\ InitKnap /\ ActOff /\ SortOff

SpecKnap == InitKnapCall /\ [][NextKnap]_vars

InitKnapSampleCall ==
    InitGraph /\ InitRoutes /\ InitMST /\ PlanOff /\ AllocOff /\ RaceOff /\ InitKnapSample /\ ActOff /\ SortOff

\* one call of knapsack_incident_assignment on the sample incidents
SpecKnapSample == InitKnapSampleCall /\ [][NextKnap]_vars

\* A scheduler filled by add_incident and then asked for a knapsack assignment.
InitConstruct ==
    /\ InitGraph /\ InitRoutes /\ InitMST /\ PlanOff /\ AllocOff /\ RaceOff /\ ActOff /\ SortOff
    /\ kpc = "collect"
    /\ construct_error = ""
    /\ kn_incidents = <<>>
    /\ time_limit \in 0..MaxTimeLimit
    /\ selected_incidents = <<>>

NextConstruct ==
    \/ \E d \in 0..MaxDuration, p \in PriorityValues, q \in (0 - 1)..MaxQuantity :
          AddIncident(d, p, q)
          /\ UNCHANGED <<graphVars, routeVars, mstVars, planVars, allocVars, raceVars, actVars, sortVars>>
    \/ ScheduleOptimalResponse
          /\ UNCHANGED <<graphVars, routeVars, mstVars, planVars, allocVars, raceVars, actVars, sortVars>>
    \/ KnapsackAssign
          /\ UNCHANGED <<graphVars, routeVars, mstVars, planVars, allocVars, raceVars, actVars, sortVars>>

SpecConstruct == InitConstruct /\ [][NextConstruct]_vars

\* one call of activity_selection_greedy
NextAct ==
    \/ ActivitySelect /\ UNCHANGED <<graphVars, routeVars, mstVars, planVars, allocVars, raceVars, knapVars, sortVars>>

InitActCall == InitGraph /\ InitRoutes /\ InitMST /\ PlanOff /\ AllocOff /\ RaceOff /\ KnapOff /\ InitAct /\ SortOff

SpecAct == InitActCall /\ [][NextAct]_vars

\* one sort of the scheduler's incidents
NextSort ==
    \/ \E kf \in NumericKeys :
          MergeSort(kf) /\ UNCHANGED <<graphVars, routeVars, mstVars, planVars, allocVars, raceVars, knapVars, actVars>>
    \/ \E kf \in NumericKeys :
          QuickSort(kf) /\ UNCHANGED <<graphVars, routeVars, mstVars, planVars, allocVars, raceVars, knapVars, actVars>>
    \/ \E kf \in NumericKeys :
          HeapSort(kf) /\ UNCHANGED <<graphVars, routeVars, mstVars, planVars, allocVars, raceVars, knapVars, actVars>>

InitSortCall == InitGraph /\ InitRoutes /\ InitMST /\ PlanOff /\ AllocOff /\ RaceOff /\ KnapOff /\ ActOff /\ InitSort

SpecSort == InitSortCall /\ [][NextSort]_vars

\* a planning session (a city is built, then plan_infrastructure is called with
\* some strategy name) or a sorting session (a scheduler with its incidents,
\* then one sort_by_* call with some strategy name)
InitStrategy ==
    /\ InitGraph /\ InitRoutes /\ InitMST /\ AllocOff /\ RaceOff /\ KnapOff /\ ActOff
    /\ \/ InitPlan /\ SortOff
       \/ PlanOff /\ InitSort

NextStrategy ==
    \/ plan_pc = "called" /\ BuildStep
          /\ UNCHANGED <<routeVars, mstVars, planVars, allocVars, raceVars, schedVars>>
    \/ \E name \in StrategyNames :
          PlanInfrastructure(name)
             /\ UNCHANGED <<graphVars, routeVars, mstVars, allocVars, raceVars, schedVars>>
    \/ \E name \in StrategyNames :
          SortByPriority(name)
             /\ UNCHANGED <<graphVars, routeVars, mstVars, planVars, allocVars, raceVars, knapVars, actVars>>
    \/ \E name \in StrategyNames :
          SortByTime(name)
             /\ UNCHANGED <<graphVars, routeVars, mstVars, planVars, allocVars, raceVars, knapVars, actVars>>
    \/ \E name \in StrategyNames :
          SortByLocation(name)
             /\ UNCHANGED <<graphVars, routeVars, mstVars, planVars, allocVars, raceVars, knapVars, actVars>>

SpecStrategy == InitStrategy /\ [][NextStrategy]_vars

\* ------------------------------------------------- claims: routes and spanning trees
HasEdge(u, v) == u \in DOMAIN edges /\ v \in DictKeys(edges[u])

EdgeWeight(u, v) == DictValue(edges[u], v)

\* the least total weight of a walk of at most k edges from s to each vertex
\* (Bellman-Ford's rounds), Infinity where there is none
RECURSIVE WalkBound(_, _)
WalkBound(s, k) ==
    IF k = 0 THEN [v \in Range(vertices) |-> IF v = s THEN 0 ELSE Infinity]
    ELSE LET d == WalkBound(s, k - 1)
         IN [v \in Range(vertices) |->
                SetMinOf({d[v]} \cup {d[u] + EdgeWeight(u, v) :
                                    u \in {x \in Range(vertices) :
                                             HasEdge(x, v) /\ d[x] # Infinity}})]

\* the minimum total weight over the paths from s to v, Infinity when there is none
TrueDistance(s, v) == WalkBound(s, Len(vertices))[v]

\* the vertices some path from s reaches
RECURSIVE ReachFrom(_)
ReachFrom(S) ==
    LET T == S \cup {v \in Range(vertices) : \E u \in S : HasEdge(u, v)}
    IN IF T = S THEN S ELSE ReachFrom(T)

Reachable(s, v) == v \in ReachFrom({s})

PathWeight(p) == SumSeq([i \in 1..(Len(p) - 1) |-> EdgeWeight(p[i], p[i + 1])])

DijkstraRan == rpc \in {"walk", "returned"}

\* C1: for a source vertex of the graph, dijkstra reports for every vertex the
\* minimum total weight over all paths from the source, and infinity exactly
\* for the vertices no path reaches.
C1_DijkstraDistancesAreMinimal ==
    (DijkstraRan /\ start_vertex \in Range(vertices)) =>
        LET least == WalkBound(start_vertex, Len(vertices))
            reached == ReachFrom({start_vertex})
        IN /\ DOMAIN distances = Range(vertices)
           /\ \A v \in Range(vertices) :
                 /\ distances[v] = least[v]
                 /\ (distances[v] = Infinity) <=> (v \notin reached)

\* a run over a triangle in which the two-edge path beats the direct edge
C1_Witness ==
    /\ DijkstraRan
    /\ start_vertex \in Range(vertices)
    /\ \E v \in Range(vertices) :
          /\ HasEdge(start_vertex, v)
          /\ distances[v] < EdgeWeight(start_vertex, v)

\* C2: for a reachable end, the returned path begins with start, ends with end,
\* every two consecutive vertices are joined by an edge, and the edge weights
\* add up to the returned total cost.
C2_PathRoundTrip ==
    (/\ rpc = "returned"
     /\ start_vertex \in Range(vertices)
     /\ end_vertex \in Range(vertices)
     /\ Reachable(start_vertex, end_vertex)) =>
        /\ result.path # <<>>
        /\ result.path[1] = start_vertex
        /\ result.path[Len(result.path)] = end_vertex
        /\ \A i \in 1..(Len(result.path) - 1) :
              HasEdge(result.path[i], result.path[i + 1])
        /\ PathWeight(result.path) = result.total_time

\* a returned path of three vertices
C2_Witness ==
    /\ rpc = "returned"
    /\ start_vertex \in Range(vertices)
    /\ end_vertex \in Range(vertices)
    /\ Len(result.path) = 3
    /\ result.total_time < Infinity


Connected == \A u \in Range(vertices), v \in Range(vertices) : Reachable(u, v)

\* C3: on every connected graph Prim's and Kruskal's total costs are equal.
C3_PrimKruskalSameCost ==
    (mst_pc = "compared" /\ Connected) =>
        prim_result.total_cost = kruskal_result.total_cost

\* a connected triangle with three different weights, where the trees cost more than 0
C3_Witness ==
    /\ mst_pc = "compared"
    /\ Connected
    /\ Len(vertices) = 3
    /\ Len(CollectEdges(1)) = 3
    /\ Cardinality({CollectEdges(1)[i][3] : i \in 1..3}) = 3
    /\ Len(prim_result.mst_edges) = 2
    /\ prim_result.total_cost > 0

\* --------------------------------------------------- claims: allocation pass
Abs(x) == IF x < 0 THEN 0 - x ELSE x

\* the travel cost between two grid nodes: every edge costs EdgeTime
GridDistance(a, b) == EdgeTime * (Abs(RowOf(a) - RowOf(b)) + Abs(ColOf(a) - ColOf(b)))

Slots == GridNodes \X (1..NumTypes)

Stocked(rtype) == {l \in GridNodes : inventory[l][rtype] > 0}

Requested(inc) == SumSeq(inc.needs)

TotalRequested == SumSeq([i \in 1..Len(incidents) |-> Requested(incidents[i])])

IsCommit(e) == e[3] # None

\* this step ran one iteration of  for _ in range(count)
UnitStep == apc = "unit" /\ Len(log') = Len(log) + 1

CommitStep == UnitStep /\ IsCommit(log'[Len(log')])

\* C4: during a pass every count is non-increasing from step to step and never
\* negative, and each commit lowers exactly one count by exactly one.
C4_InventoryMonotonic ==
    /\ [](\A sl \in Slots : inventory[sl[1]][sl[2]] >= 0)
    /\ [][/\ \A sl \in Slots : inventory'[sl[1]][sl[2]] <= inventory[sl[1]][sl[2]]
          /\ CommitStep =>
                \E sl \in Slots :
                    /\ inventory'[sl[1]][sl[2]] = inventory[sl[1]][sl[2]] - 1
                    /\ \A o \in Slots \ {sl} : inventory'[o[1]][o[2]] = inventory[o[1]][o[2]]
          /\ ~CommitStep => inventory' = inventory]_vars

\* two commits were made and a location that had stock has none left
C4_Witness ==
    /\ Len(SelectSeq(log, IsCommit)) >= 2
    /\ \E sl \in Slots : inventory0[sl[1]][sl[2]] > 0 /\ inventory[sl[1]][sl[2]] = 0

\* C5: the source of every committed unit is, among the locations stocked with
\* that type at that moment, one of minimum travel cost to the incident, the
\* first such in node iteration order, and the recorded cost is that minimum.
C5_NearestFirstMinimum ==
    [][CommitStep =>
          LET e == log'[Len(log')]
              rtype == e[2]
              src == e[3]
              node == serving.node
              entries == assignments'[KeyOf(serving)]
          IN /\ src \in Stocked(rtype)
             /\ \A l \in Stocked(rtype) :
                   /\ GridDistance(src, node) <= GridDistance(l, node)
                   /\ GridDistance(src, node) = GridDistance(l, node) => src <= l
             /\ e[4] = GridDistance(src, node)
             /\ entries[Len(entries)] = <<rtype, src, GridDistance(src, node)>>]_vars

\* the last commit took the first of two stocked locations at the same cost
C5_Witness ==
    /\ log # <<>>
    /\ LET e == log[Len(log)]
       IN /\ IsCommit(e)
          /\ \E l \in GridNodes :
                /\ l > e[3]
                /\ inventory[l][e[2]] > 0
                /\ GridDistance(l, serving.node) = GridDistance(e[3], serving.node)
                /\ GridDistance(l, serving.node) > 0

\* C6: an absent entry is recorded exactly when no location is stocked with the
\* type at that moment; it leaves the inventory unchanged and the pass goes on
\* until every requested unit has had its iteration.
C6_AbsentIffNoneStocked ==
    /\ [][UnitStep =>
             LET e == log'[Len(log')]
                 entries == assignments'[KeyOf(serving)]
             IN /\ ~IsCommit(e) <=> Stocked(e[2]) = {}
                /\ ~IsCommit(e) =>
                      /\ entries[Len(entries)] = <<e[2], None, None>>
                      /\ inventory' = inventory
                      /\ apc' \in {"unit", "incident"}]_vars
    /\ [](apc = "returned" => Len(log) = TotalRequested)

\* a returned pass in which a commit followed an absent entry
C6_Witness ==
    /\ apc = "returned"
    /\ \E i \in 1..Len(log), j \in 1..Len(log) :
          i < j /\ ~IsCommit(log[i]) /\ IsCommit(log[j])

\* the incidents the loop has finished with
ServedCount == IF apc = "unit" THEN inc_i - 1 ELSE inc_i

ResultEntries(named) ==
    SumSeq([n \in 1..(GridRows * GridCols) |->
               IF n \in DOMAIN assignments
               THEN Len(SelectSeq(assignments[n], LAMBDA e : (e[2] # None) = named))
               ELSE 0])

UnitsRemoved == TotalUnits(inventory0) - TotalUnits(inventory)

\* C8: after a pass of the location-keyed allocate_resources the result holds for
\* every incident one entry per requested unit, the entries naming a source are
\* as many as the units removed, and the absent entries as many as the unfulfilled.
C8_ResultCountsEveryUnit ==
    (impl = "main" /\ apc = "returned") =>
        /\ \A i \in 1..Len(incidents) :
              Len(assignments[incidents[i].node]) = Requested(incidents[i])
        /\ ResultEntries(TRUE) = UnitsRemoved
        /\ ResultEntries(FALSE) = TotalRequested - UnitsRemoved


\* ------------------------------------------------------ claims: knapsack
PositiveDurations == \A i \in 1..Len(kn_incidents) : kn_incidents[i].estimated_duration > 0

SummedPriority(sel) == SumSeq([i \in 1..Len(sel) |-> sel[i].priority])

SummedDuration(sel) == SumSeq([i \in 1..Len(sel) |-> sel[i].estimated_duration])

\* the input incidents at the positions S, in list order
Pick(S) == SelectSeq(kn_incidents, LAMBDA inc : inc.id \in S)

\* the maximum summed priority over the subsets that fit into time_limit
BestPriority ==
    LET fitting == {S \in SUBSET (1..Len(kn_incidents)) :
                       SummedDuration(Pick(S)) <= time_limit}
    IN CHOOSE b \in {SummedPriority(Pick(S)) : S \in fitting} :
           \A S \in fitting : SummedPriority(Pick(S)) <= b

\* C9: for positive durations and a positive time_limit the summed priority of
\* the returned list is the maximum over all subsets of the input whose summed
\* duration is at most time_limit.
C9_KnapsackIsOptimal ==
    (kpc = "returned" /\ PositiveDurations /\ time_limit > 0) =>
        SummedPriority(selected_incidents) = BestPriority

\* a returned selection that leaves out an incident of higher priority than one
\* it takes, and fills the limit exactly
C9_Witness ==
    /\ kpc = "returned"
    /\ PositiveDurations
    /\ time_limit > 0
    /\ Len(selected_incidents) >= 2
    /\ SummedDuration(selected_incidents) = time_limit
    /\ \E i \in 1..Len(kn_incidents) :
          /\ \A j \in 1..Len(selected_incidents) :
                /\ selected_incidents[j].id # i
                /\ selected_incidents[j].priority < kn_incidents[i].priority

SelectedOnce ==
    /\ \A i \in 1..Len(selected_incidents) :
          /\ selected_incidents[i].id \in 1..Len(kn_incidents)
          /\ selected_incidents[i] = kn_incidents[selected_incidents[i].id]
    /\ \A i \in 1..Len(selected_incidents), j \in 1..Len(selected_incidents) :
          i # j => selected_incidents[i].id # selected_incidents[j].id

EmptyWhenNothingFits ==
    (time_limit <= 0 \/ kn_incidents = <<>>) => selected_incidents = <<>>

\* C10 as stated: for positive durations and every time_limit the returned list
\* has each input incident at most once and its summed duration is at most
\* time_limit; for time_limit <= 0 or an empty input it is empty.
C10_AsStated ==
    (kpc = "returned" /\ PositiveDurations) =>
        /\ SelectedOnce
        /\ SummedDuration(selected_incidents) <= time_limit
        /\ EmptyWhenNothingFits

\* C10: for positive durations the returned list has each input incident at
\* most once; for time_limit >= 0 its summed duration is at most time_limit; for
\* time_limit <= 0 or an empty input it is empty (summed duration 0).
C10_SelectionWithinLimit ==
    (kpc = "returned" /\ PositiveDurations) =>
        /\ SelectedOnce
        /\ time_limit >= 0 => SummedDuration(selected_incidents) <= time_limit
        /\ EmptyWhenNothingFits

\* a returned selection of two incidents out of three within a positive limit
C10_Witness ==
    /\ kpc = "returned"
    /\ PositiveDurations
    /\ Len(kn_incidents) = 3
    /\ Len(selected_incidents) = 2
    /\ SummedDuration(kn_incidents) > time_limit


\* ------------------------------------------------- claims: activity selection
PositiveSpans == \A i \in 1..Len(act_incidents) : act_incidents[i].estimated_duration > 0

\* the half-open intervals [time, time + estimated_duration) have a minute in common
Overlap(a, b) == a.time < EndTime(b) /\ b.time < EndTime(a)

\* C11: for positive durations no two distinct returned incidents overlap, and
\* in the returned order each incident starts at or after the end of the one
\* before it.
C11_SelectionDoesNotOverlap ==
    (gpc = "returned" /\ PositiveSpans) =>
        /\ \A i \in 1..Len(act_selected), j \in 1..Len(act_selected) :
              i # j => /\ act_selected[i].id # act_selected[j].id
                       /\ ~Overlap(act_selected[i], act_selected[j])
        /\ \A i \in 1..(Len(act_selected) - 1) : act_selected[i + 1].time >= EndTime(act_selected[i])

\* two incidents are returned and one that overlaps them is left out
C11_Witness ==
    /\ gpc = "returned"
    /\ PositiveSpans
    /\ Len(act_selected) = 2
    /\ \E k \in 1..Len(act_incidents) :
          /\ \A i \in 1..Len(act_selected) : act_selected[i].id # k
          /\ Overlap(act_incidents[k], act_selected[1])
          /\ Overlap(act_incidents[k], act_selected[2])

\* the positions of a subset whose intervals are pairwise non-overlapping
Compatible(S) ==
    \A i \in S, j \in S : i # j => ~Overlap(act_incidents[i], act_incidents[j])

LargestCompatible ==
    LET sizes == {Cardinality(S) : S \in {T \in SUBSET (1..Len(act_incidents)) : Compatible(T)}}
    IN CHOOSE m \in sizes : \A n \in sizes : n <= m

\* C12: for positive durations the number of returned incidents is the largest
\* size of a subset of the input with pairwise non-overlapping intervals.
C12_SelectionIsLargest ==
    (gpc = "returned" /\ PositiveSpans) =>
        /\ Len(act_selected) = LargestCompatible
        /\ \A i \in 1..Len(act_selected) :
              /\ act_selected[i].id \in 1..Len(act_incidents)
              /\ act_selected[i] = act_incidents[act_selected[i].id]

\* the largest subset has two incidents, the first incident of the input is in
\* none of the largest subsets, and the list is not in end-time order
C12_Witness ==
    /\ gpc = "returned"
    /\ PositiveSpans
    /\ Len(act_incidents) = 3
    /\ Len(act_selected) = 2
    /\ act_selected[1].id # 1 /\ act_selected[2].id # 1
    /\ EndTime(act_incidents[1]) > EndTime(act_incidents[2])
    /\ Overlap(act_incidents[1], act_incidents[2])
    /\ Overlap(act_incidents[1], act_incidents[3])


\* --------------------------------------------------------- claims: the sorts
SortKey(x) == Key(key_func, x)

DistinctKeys ==
    \A i \in 1..Len(self_incidents), j \in 1..Len(self_incidents) :
        i # j => SortKey(self_incidents[i]) # SortKey(self_incidents[j])

SortEnded == sort_pc \in {"returned", "raised"}

\* C13: on a list whose keys under a numeric key function are pairwise distinct
\* the three sorts, called with that same key function, return the same
\* sequence; stated for each call against merge_sort_incidents on its input.
C13_SortsAgree ==
    (SortEnded /\ key_func \in NumericKeys /\ DistinctKeys) =>
        /\ sort_pc = "returned"
        /\ sort_result = merge_sort_incidents(self_incidents, key_func)

\* how often the incident x occurs in the list
Occurrences(list, x) == Cardinality({i \in 1..Len(list) : list[i] = x})

SameIncidents(a, b) ==
    /\ Len(a) = Len(b)
    /\ \A i \in 1..Len(a) : Occurrences(a, a[i]) = Occurrences(b, a[i])

\* C14: merge_sort_incidents returns a permutation of its input in
\* non-decreasing key order in which incidents with equal keys keep their
\* relative order from the input (ids are input positions).
C14_MergeSortIsStable ==
    (sort_pc = "returned" /\ algorithm = "merge") =>
        /\ SameIncidents(sort_result, self_incidents)
        /\ \A i \in 1..Len(sort_result), j \in 1..Len(sort_result) :
              i < j =>
                 /\ KeyAtMost(key_func, SortKey(sort_result[i]), SortKey(sort_result[j]))
                 /\ SortKey(sort_result[i]) = SortKey(sort_result[j]) =>
                       sort_result[i].id < sort_result[j].id

\* merge sort moved an incident in front of two with equal keys that stay in order
C14_Witness ==
    /\ sort_pc = "returned"
    /\ algorithm = "merge"
    /\ Len(sort_result) = 3
    /\ sort_result[1].id = 3
    /\ SortKey(sort_result[2]) = SortKey(sort_result[3])
    /\ SortKey(sort_result[1]) # SortKey(sort_result[2])

\* C15: on every list, equal keys included, quick_sort_incidents and
\* heap_sort_incidents complete and return exactly the incidents of the input,
\* each as often as it occurs there.
C15_QuickAndHeapKeepTheIncidents ==
    (SortEnded /\ algorithm \in {"quick", "heap"}) =>
        /\ sort_pc = "returned"
        /\ SameIncidents(sort_result, self_incidents)
        /\ SameIncidents(sort_result, merge_sort_incidents(self_incidents, key_func))


\* ------------------------------------------- claims: sample city and errors
SampleCityBuilt == calls = Len(SampleCityCalls) /\ CityHQ \in Range(vertices)

\* C16: on the sample city get_shortest_path(city, "HQ", "D") returns the path
\* [HQ, A, B, D] with total cost 15.
C16_SampleRouteHQToD ==
    (SampleCityBuilt /\ rpc = "returned" /\ start_vertex = CityHQ /\ end_vertex = CityD) =>
        result = [path |-> <<CityHQ, CityA, CityB, CityD>>, total_time |-> 15]

\* the route from HQ to D on the sample city has been returned
C16_Witness ==
    /\ SampleCityBuilt
    /\ Len(vertices) = 5
    /\ EdgeWeight(CityC, CityD) = 4
    /\ rpc = "returned"
    /\ start_vertex = CityHQ
    /\ end_vertex = CityD
    /\ Len(result.path) = 4

RouteEnded == rpc \in {"returned", "raised"}

\* C18: get_shortest_path called with a start or an end that is not a vertex of
\* the graph returns the empty path with infinite cost and does not raise.
C18_AbsentVertexGivesEmptyRoute ==
    (RouteEnded /\ (start_vertex \notin Range(vertices) \/ end_vertex \notin Range(vertices))) =>
        /\ rpc = "returned"
        /\ result = [path |-> <<>>, total_time |-> Infinity]

\* C19: for two vertices of the graph with no path from start to end
\* get_shortest_path returns the empty path and infinite cost, without raising.
C19_UnreachableGivesEmptyRoute ==
    (rpc # "build" /\ start_vertex \in Range(vertices) /\ end_vertex \in Range(vertices)
        /\ ~Reachable(start_vertex, end_vertex)) =>
        /\ rpc = "returned"
        /\ result = [path |-> <<>>, total_time |-> Infinity]

\* a route was asked between two vertices of a graph that has an edge, and there
\* is no path between them
C19_Witness ==
    /\ rpc = "returned"
    /\ start_vertex \in Range(vertices)
    /\ end_vertex \in Range(vertices)
    /\ ~Reachable(start_vertex, end_vertex)
    /\ \E v \in Range(vertices) : HasEdge(start_vertex, v) /\ v # start_vertex
    /\ result.path = <<>>


\* C17: for the five sample incidents in list order and time_limit 300
\* knapsack_incident_assignment returns the first three incidents in input
\* order, of summed priority value 12 and summed duration 255.
C17_SampleKnapsack ==
    (kpc = "returned" /\ kn_incidents = create_sample_incidents /\ time_limit = DemoTimeLimit) =>
        /\ selected_incidents = SubSeq(create_sample_incidents, 1, 3)
        /\ SummedPriority(selected_incidents) = 12
        /\ SummedDuration(selected_incidents) = 255

\* the call on the sample incidents with the demo's time limit has returned
C17_Witness ==
    /\ kpc = "returned"
    /\ Len(kn_incidents) = 5
    /\ SummedDuration(kn_incidents) = 495
    /\ SummedPriority(kn_incidents) = 19
    /\ time_limit = DemoTimeLimit
    /\ selected_incidents # <<>>


\* ---------------------------------------------------- claims: strategy names
\* the letters of a name, its case left aside
Letters(name) == [i \in 1..Len(name) |-> name[i][1]]

AllLowerCase(name) == \A i \in 1..Len(name) : ~name[i][2]

UnknownPlanName ==
    Letters(plan_algorithm) \notin {<<"p", "r", "i", "m">>, <<"k", "r", "u", "s", "k", "a", "l">>}

UnknownSortName ==
    ~(/\ AllLowerCase(sort_name)
      /\ Letters(sort_name) \in {<<"m", "e", "r", "g", "e">>, <<"q", "u", "i", "c", "k">>,
                                 <<"h", "e", "a", "p">>})

\* C20: plan_infrastructure raises for every name other than "prim" and
\* "kruskal" compared case-insensitively, sort_by_priority, sort_by_time and
\* sort_by_location raise for every name other than "merge", "quick" and
\* "heap"; no result is produced, and the graph and the scheduler's incident
\* list are left as they were.
C20_UnknownStrategyIsRejected ==
    /\ []((plan_pc \in {"returned", "raised"} /\ UnknownPlanName) =>
             /\ plan_pc = "raised"
             /\ plan_result = [mst_edges |-> <<>>, total_cost |-> 0])
    /\ []((sort_pc \in {"returned", "raised"} /\ sort_by # "" /\ UnknownSortName) =>
             /\ sort_pc = "raised"
             /\ sort_error = "ValueError"
             /\ sort_result = <<>>)
    /\ [][(plan_pc' # plan_pc \/ sort_pc' # sort_pc) =>
             /\ vertices' = vertices
             /\ edges' = edges
             /\ self_incidents' = self_incidents]_vars

\* sort_by_location was called with "Merge" on a scheduler that holds incidents
C20_Witness ==
    /\ sort_pc = "raised"
    /\ sort_by = "location"
    /\ Letters(sort_name) = <<"m", "e", "r", "g", "e">>
    /\ sort_name[1][2]
    /\ Len(self_incidents) >= 2
    /\ sort_error = "ValueError"

\* ---------------------------------------------------------------------------
\* C21: an incident whose estimated_duration is zero or negative is rejected at
\* construction, so every incident handed to knapsack_incident_assignment has a
\* positive duration.  (Violated: Incident has no validation; only Resource has.)
C21_NonPositiveDurationRejected ==
    kpc \in {"called", "returned"} => PositiveDurations

\* ---------------------------------------------------------------------------
\* C22: after any sequence of add_vertex and add_edge calls, u lists v as a
\* neighbour exactly when v lists u, both with the same weight; every endpoint of
\* every edge is in the vertex list; the keys of the edge mapping are exactly the
\* vertices of the vertex list.
C22_GraphIsSymmetricAndClosed ==
    /\ \A u \in Names, v \in Names :
          /\ HasEdge(u, v) <=> HasEdge(v, u)
          /\ HasEdge(u, v) /\ HasEdge(v, u) => EdgeWeight(u, v) = EdgeWeight(v, u)
          /\ HasEdge(u, v) => u \in Range(vertices) /\ v \in Range(vertices)
    /\ DOMAIN edges = Range(vertices)

\* an edge between two auto-created endpoints whose weight a later add_edge, given
\* in the other direction, has overwritten
C22_Witness ==
    \E i \in 1..Len(call_log), j \in 1..Len(call_log) :
        /\ i < j
        /\ Len(call_log[i]) = 3 /\ Len(call_log[j]) = 3
        /\ call_log[j][1] = call_log[i][2] /\ call_log[j][2] = call_log[i][1]
        /\ call_log[i][1] # call_log[i][2]
        /\ call_log[i][3] # call_log[j][3]
        /\ \A k \in 1..(i - 1) : Len(call_log[k]) = 3
        /\ EdgeWeight(call_log[i][1], call_log[i][2]) = call_log[j][3]

\* the names of the calls made, in the order the calls name them
CalledNames ==
    LET NamesOf(call) == IF Len(call) = 1 THEN <<call[1]>> ELSE <<call[1], call[2]>>
        F[i \in 0..Len(call_log)] == IF i = 0 THEN <<>> ELSE F[i - 1] \o NamesOf(call_log[i])
    IN F[Len(call_log)]

\* a sequence of names with every occurrence after the first removed
FirstInsertions(names) ==
    LET F[i \in 0..Len(names)] ==
            IF i = 0 THEN <<>>
            ELSE IF names[i] \in Range(F[i - 1]) THEN F[i - 1] ELSE Append(F[i - 1], names[i])
    IN F[Len(names)]

\* the step is a call add_vertex(v) for a vertex already in the graph
RepeatedAddVertex ==
    /\ Len(call_log') = Len(call_log) + 1
    /\ Len(call_log'[Len(call_log')]) = 1
    /\ call_log'[Len(call_log')][1] \in Range(vertices)

\* C23: add_vertex(v) for a vertex already in the graph leaves the vertex list
\* and every edge unchanged, and after any sequence of add_vertex and add_edge
\* calls the vertex list holds each name once, in order of first insertion.
C23_AddVertexIsIdempotent ==
    /\ [](vertices = FirstInsertions(CalledNames))
    /\ [][RepeatedAddVertex => vertices' = vertices /\ edges' = edges]_vars

\* add_vertex was called again for a vertex that already had an edge
C23_Witness ==
    \E i \in 1..Len(call_log), j \in 1..Len(call_log) :
        /\ i < j
        /\ Len(call_log[i]) = 3 /\ Len(call_log[j]) = 1
        /\ call_log[j][1] \in {call_log[i][1], call_log[i][2]}
        /\ edges[call_log[j][1]] # <<>>

\* ---------------------------------------------------------------------------
\* how many entries of the two passes' results name a unit of the slot
RaceCommitted(slot) ==
    LET Of(p) == Cardinality({k \in 1..Len(race_assign[p]) :
                                 race_assign[p][k][1] = slot[2] /\ race_assign[p][k][2] = slot[1]})
    IN Of("first") + Of("second")

\* a count is negative, or more units of a slot are committed than it held
ScanThenDecrementBroken ==
    \E slot \in Slots :
        \/ inventory[slot[1]][slot[2]] < 0
        \/ RaceCommitted(slot) > inventory0[slot[1]][slot[2]]

\* C24: when check and decrement of a unit form one atomic step, two passes
\* running against the same inventory never make a count negative nor commit one
\* physical unit twice; interleaved between check and decrement they can.
C24_AtomicPassesKeepInventory ==
    atomic => ~ScanThenDecrementBroken

\* two interleaved passes have driven a count below zero
C24_Witness ==
    /\ ~atomic
    /\ \E slot \in Slots :
          /\ inventory[slot[1]][slot[2]] < 0
          /\ RaceCommitted(slot) > inventory0[slot[1]][slot[2]]

\* ---------------------------------------------------------------------------
\* the position of a vertex in the order dijkstra took the vertices from its queue
PoppedAt(d, v) == CHOOSE k \in 1..Len(d.popped) : d.popped[k] = v

\* C25: queued vertices with the same tentative distance leave dijkstra's
\* priority queue in the order in which they were pushed, no secondary key
\* deciding between them.  (Violated: the queue holds (distance, vertex) tuples,
\* so among equal distances the smaller vertex name leaves first.)
C25_TiesLeaveInDiscoveryOrder ==
    DijkstraRan =>
        LET d == dijkstra(start_vertex)
        IN \A i \in 1..Len(d.pushed), j \in 1..Len(d.pushed) :
              /\ i < j
              /\ d.pushed[i][1] = d.pushed[j][1]
              /\ d.pushed[i][2] # d.pushed[j][2]
              /\ d.distances[d.pushed[i][2]] = d.pushed[i][1]
              /\ d.distances[d.pushed[j][2]] = d.pushed[j][1]
              => PoppedAt(d, d.pushed[i][2]) < PoppedAt(d, d.pushed[j][2])

\* ---------------------------------------------------------------------------
\* the connected component of the first-listed vertex
FirstComponent == IF vertices = <<>> THEN {} ELSE ReachFrom({vertices[1]})

\* the vertices joined to those of S by the edges of the list
RECURSIVE JoinedBy(_, _)
JoinedBy(tree_edges, S) ==
    LET T == S \cup {v \in Range(vertices) :
                        \E u \in S, k \in 1..Len(tree_edges) :
                            {tree_edges[k][1], tree_edges[k][2]} = {u, v}}
    IN IF T = S THEN S ELSE JoinedBy(tree_edges, T)

\* C26: prims_algorithm returns a tree over exactly the connected component of
\* the first-listed vertex: its edges are edges of the graph with their weights,
\* join every vertex of the component to the first vertex and touch no vertex
\* outside it, number (component size - 1), and total_cost is the sum of their
\* weights; for a graph with no vertices it returns no edges and cost 0.
C26_PrimSpansFirstComponent ==
    mst_pc = "compared" =>
        LET mst_edges == prim_result.mst_edges
        IN IF vertices = <<>>
           THEN mst_edges = <<>> /\ prim_result.total_cost = 0
           ELSE /\ \A k \in 1..Len(mst_edges) :
                      /\ HasEdge(mst_edges[k][1], mst_edges[k][2])
                      /\ EdgeWeight(mst_edges[k][1], mst_edges[k][2]) = mst_edges[k][3]
                      /\ mst_edges[k][1] \in FirstComponent
                      /\ mst_edges[k][2] \in FirstComponent
                /\ JoinedBy(mst_edges, {vertices[1]}) = FirstComponent
                /\ Len(mst_edges) = Cardinality(FirstComponent) - 1
                /\ prim_result.total_cost = SumSeq([k \in 1..Len(mst_edges) |-> mst_edges[k][3]])

\* a disconnected graph whose first vertex has a component of two vertices
C26_Witness ==
    /\ mst_pc = "compared"
    /\ Len(vertices) = NumNames
    /\ Cardinality(FirstComponent) = 2
    /\ Len(prim_result.mst_edges) = 1

\* ---------------------------------------------------------------------------
\* a list without its k-th entry
Without(list, k) == SubSeq(list, 1, k - 1) \o SubSeq(list, k + 1, Len(list))

\* C27: kruskals_algorithm considers each undirected edge between two different
\* vertices exactly once, and the edges it returns contain no cycle and number
\* (vertex count - number of connected components), so that two vertices are
\* joined by returned edges exactly when they are connected in the graph.
C27_KruskalSpansEveryComponent ==
    mst_pc = "compared" =>
        LET all_edges == CollectEdges(1)
            mst_edges == kruskal_result.mst_edges
        IN /\ \A u \in Names, v \in Names :
                 Cardinality({k \in 1..Len(all_edges) :
                                 {all_edges[k][1], all_edges[k][2]} = {u, v}})
                     = IF u # v /\ HasEdge(u, v) THEN 1 ELSE 0
           /\ \A k \in 1..Len(mst_edges) :
                 /\ HasEdge(mst_edges[k][1], mst_edges[k][2])
                 /\ mst_edges[k][2] \notin JoinedBy(Without(mst_edges, k), {mst_edges[k][1]})
           /\ Len(mst_edges) = Len(vertices)
                                  - Cardinality({ReachFrom({v}) : v \in Range(vertices)})
           /\ \A u \in Range(vertices), v \in Range(vertices) :
                 v \in JoinedBy(mst_edges, {u}) <=> Reachable(u, v)

\* a triangle: three edges are considered and the one closing the cycle is left out
C27_Witness ==
    /\ mst_pc = "compared"
    /\ Len(CollectEdges(1)) = 3
    /\ Len(kruskal_result.mst_edges) = 2
    /\ Connected

\* ---------------------------------------------------------------------------
\* C28: for every incident list and key function, lists with equal keys
\* included, quick_sort_incidents returns exactly the sequence
\* merge_sort_incidents returns: incidents with equal keys keep their input order.
C28_QuickSortEqualsMergeSort ==
    (sort_pc = "returned" /\ algorithm = "quick") =>
        /\ sort_result = merge_sort_incidents(self_incidents, key_func)
        /\ \A i \in 1..Len(sort_result), j \in 1..Len(sort_result) :
              (i < j /\ SortKey(sort_result[i]) = SortKey(sort_result[j])) =>
                  sort_result[i].id < sort_result[j].id

\* quick sort moved the last incident in front of two with equal keys, one of
\* them the pivot
C28_Witness ==
    /\ sort_pc = "returned"
    /\ algorithm = "quick"
    /\ Len(sort_result) = 3
    /\ sort_result[1].id = 3
    /\ SortKey(sort_result[2]) = SortKey(sort_result[3])
    /\ SortKey(sort_result[1]) # SortKey(sort_result[2])

\* ---------------------------------------------------------------------------
\* C29: with pairwise distinct times sort_by_time returns the incidents from
\* earliest to latest for each of the selectors "merge", "quick" and "heap", and
\* with pairwise distinct priorities sort_by_priority returns them from highest
\* to lowest for each selector.  (Violated: sort_by_time("heap") hands the plain
\* time to heap_sort_incidents, which returns the largest key first.)
C29_SelectorsGiveTheSameOrder ==
    sort_pc = "returned" =>
        /\ (/\ sort_by = "time"
            /\ \A i \in 1..Len(self_incidents), j \in 1..Len(self_incidents) :
                  i # j => self_incidents[i].time # self_incidents[j].time)
           => \A i \in 1..Len(sort_result), j \in 1..Len(sort_result) :
                  i < j => sort_result[i].time < sort_result[j].time
        /\ (/\ sort_by = "priority"
            /\ \A i \in 1..Len(self_incidents), j \in 1..Len(self_incidents) :
                  i # j => self_incidents[i].priority # self_incidents[j].priority)
           => \A i \in 1..Len(sort_result), j \in 1..Len(sort_result) :
                  i < j => sort_result[i].priority > sort_result[j].priority

\* ---------------------------------------------------------------------------
\* the vertex reached from v by following n predecessor links, None once the
\* links have ended
RECURSIVE Back(_, _)
Back(v, n) ==
    IF n = 0 \/ v = None \/ v \notin DOMAIN predecessors THEN v
    ELSE Back(predecessors[v], n - 1)

NoRepeats(list) == \A i \in 1..Len(list), j \in 1..Len(list) : i # j => list[i] # list[j]

\* C30: for every graph with non-negative weights (zero-weight edges included)
\* and every source vertex of the graph, dijkstra's predecessor links contain no
\* cycle and the source has no predecessor, so the backward walk of
\* get_shortest_path from a reachable end visits each vertex at most once and
\* terminates at the source.
C30_BackwardWalkTerminates ==
    /\ []((DijkstraRan /\ start_vertex \in Range(vertices)) =>
             /\ predecessors[start_vertex] = None
             /\ \A v \in Range(vertices) : Back(v, Len(vertices)) = None
             /\ rpc = "walk" =>
                   /\ NoRepeats(path)
                   /\ current \notin Range(path)
                   /\ current = None => path[Len(path)] = start_vertex)
    /\ (rpc = "walk" /\ start_vertex \in Range(vertices)) ~>
          (rpc = "returned" /\ result.path # <<>> /\ result.path[1] = start_vertex)

\* a walk back over two zero-weight edges has ended at the source
C30_Witness ==
    /\ rpc = "returned"
    /\ Len(result.path) = 3
    /\ result.total_time = 0
    /\ result.path[1] = start_vertex
    /\ predecessors[start_vertex] = None

============================================================================
